---- MODULE Spec2Model ----
(***************************************************************************)
(* A model of cinnabar's sway IPC client (src/cinnabar/sway.py): the       *)
(* SwayClient facade, the command worker (message_dispatch_worker), the    *)
(* event worker (event_worker) and the frame codec (send_sway_msg,         *)
(* recv_sway_msg); and of the workspace widget that uses the client        *)
(* (src/cinnabar/plugins/sway_workspaces.py).                              *)
(*                                                                         *)
(* Nine specifications share the definitions below:                        *)
(*   Spec       the facade and the command channel;                        *)
(*   SpecEvent  the facade and the event channel, with the read timeout;   *)
(*   SpecCodec  the frame codec on byte sequences, JSON payloads;          *)
(*   SpecDecode recv_sway_msg on a frame written by the peer;              *)
(*   SpecRaw    the frame codec on the payload strings of the callers;     *)
(*   SpecStream one event worker, its frames arriving in two chunks;       *)
(*   SpecWidget the workspace widgets of two bars and the GLib main loop;  *)
(*   SpecSync   one workspace widget and the compositor it starts against; *)
(*   SpecTray   the tray's StatusNotifierWatcher (plugins/tray/sni.py).    *)
(***************************************************************************)
EXTENDS Integers, Sequences, FiniteSets, TLC

(***************************************************************************)
(* Bounds of the model.                                                    *)
(***************************************************************************)
\* send() calls made on the client.
MaxReqs == 3
\* event_handler calls made for one subscription.
MaxEvents == 2
\* Read-timeout periods counted after a subscription's stop flag is set.
MaxTicks == 3
\* Elements of a JSON array payload.
MaxArr == 2
\* Frames the compositor writes on one event connection, chunk by chunk.
MaxFrames == 2
\* Handler calls the workers of the workspace widgets' clients make.
MaxCallbacks == 3
\* Method calls and bus signals the tray watcher handles.
MaxTrayCalls == 4

(***************************************************************************)
(* Unsigned 32-bit values.  TLC's integers are 32-bit signed, so a u32 is  *)
(* kept as its top bit and its low 31 bits.                                *)
(***************************************************************************)
U32(n) == [hi |-> 0, lo |-> n]

\* int("8000000n", 16): n with the top bit set.
HighBit(n) == [hi |-> 1, lo |-> n]

(***************************************************************************)
(* The enumerations of sway.py.                                            *)
(***************************************************************************)
SwayMessage ==
    [ RUN_COMMAND       |-> U32(0),
      GET_WORKSPACES    |-> U32(1),
      SUBSCRIBE         |-> U32(2),
      GET_OUTPUTS       |-> U32(3),
      GET_TREE          |-> U32(4),
      GET_MARKS         |-> U32(5),
      GET_BAR_CONFIG    |-> U32(6),
      GET_VERSION       |-> U32(7),
      GET_BINDING_MODES |-> U32(8),
      GET_CONFIG        |-> U32(9),
      SEND_TICK         |-> U32(10),
      SYNC              |-> U32(11),
      GET_BINDING_STATE |-> U32(12),
      GET_INPUTS        |-> U32(100),
      GET_SEATS         |-> U32(101) ]

SwayEvent ==
    [ WORKSPACE        |-> HighBit(0),
      MODE             |-> HighBit(2),
      WINDOW           |-> HighBit(3),
      BARCONFIG_UPDATE |-> HighBit(4),
      BINDING          |-> HighBit(5),
      SHUTDOWN         |-> HighBit(6),
      TICK             |-> HighBit(7),
      BAR_STATE_UPDATE |-> HighBit(20),
      INPUT            |-> HighBit(21) ]

\* A type code that belongs to neither enumeration.
UnknownCode == U32(99)

\* The RuntimeError of line 334 and the one of line 257.
UnexpectedType == "RuntimeError: Unexpected payload type received"
SubscribeFailed == "RuntimeError: Failed to subscribe to Sway events."

\* A classification that looks only at the low 31 bits of the type code.
ClassifyLowBits(code) ==
    LET c == U32(code.lo)
    IN  IF \E m \in DOMAIN SwayMessage : SwayMessage[m] = c
        THEN [cls  |-> "SwayMessage",
              name |-> CHOOSE m \in DOMAIN SwayMessage : SwayMessage[m] = c]
        ELSE [cls |-> "error", name |-> UnexpectedType]

\* Lines 328-336 of recv_sway_msg: the enumeration a type code belongs to.  The
\* result is [cls, name]; cls "error" is the RuntimeError of line 334.
ClassifyPayloadType(code) ==
    IF \E m \in DOMAIN SwayMessage : SwayMessage[m] = code
    THEN [cls  |-> "SwayMessage",
          name |-> CHOOSE m \in DOMAIN SwayMessage : SwayMessage[m] = code]
    ELSE IF \E e \in DOMAIN SwayEvent : SwayEvent[e] = code
    THEN [cls  |-> "SwayEvent",
          name |-> CHOOSE e \in DOMAIN SwayEvent : SwayEvent[e] = code]
    ELSE [cls |-> "error", name |-> UnexpectedType]

(***************************************************************************)
(* The frame layout (lines 12-20).                                         *)
(***************************************************************************)
\* b"i3-ipc"
MAGIC_STR == <<105, 51, 45, 105, 112, 99>>
MAGIC_STR_LEN == Len(MAGIC_STR)
PAYLOAD_LENGTH_LEN == 4
PAYLOAD_TYPE_LEN == 4
PAYLOAD_LENGTH_BEGIN == MAGIC_STR_LEN
PAYLOAD_LENGTH_END == PAYLOAD_LENGTH_BEGIN + PAYLOAD_LENGTH_LEN
PAYLOAD_TYPE_BEGIN == PAYLOAD_LENGTH_END
PAYLOAD_TYPE_END == PAYLOAD_TYPE_BEGIN + PAYLOAD_TYPE_LEN
HEADER_LEN == MAGIC_STR_LEN + PAYLOAD_LENGTH_LEN + PAYLOAD_TYPE_LEN

\* The Python slice b[begin:end] of a byte sequence (indices from 0, end not
\* included).
Slice(b, begin, end) == SubSeq(b, begin + 1, end)

Reverse(b) == [i \in 1..Len(b) |-> b[Len(b) + 1 - i]]

\* The values of sys.byteorder.
ByteOrders == {"little", "big"}

\* int.to_bytes(4, order) of a u32.
to_bytes(n, order) ==
    LET big == << n.hi * 128 + (n.lo \div 16777216),
                  (n.lo \div 65536) % 256,
                  (n.lo \div 256) % 256,
                  n.lo % 256 >>
    IN  IF order = "big" THEN big ELSE Reverse(big)

\* int.from_bytes(b, order) of four bytes, as a u32.
from_bytes(b, order) ==
    LET big == IF order = "big" THEN b ELSE Reverse(b)
    IN  [hi |-> big[1] \div 128,
         lo |-> (big[1] % 128) * 16777216 + big[2] * 65536 + big[3] * 256 + big[4]]

\* len(x) < n for a length len(x) and a u32 n.
LessThanU32(len, n) == n.hi = 1 \/ len < n.lo

(***************************************************************************)
(* str.encode() and bytes.decode(): UTF-8 of the code points below 65536.  *)
(***************************************************************************)
utf8_char(c) ==
    IF c < 128 THEN <<c>>
    ELSE IF c < 2048 THEN <<192 + (c \div 64), 128 + (c % 64)>>
    ELSE <<224 + (c \div 4096), 128 + ((c \div 64) % 64), 128 + (c % 64)>>

RECURSIVE utf8_encode(_)
utf8_encode(str) ==
    IF str = <<>> THEN <<>> ELSE utf8_char(Head(str)) \o utf8_encode(Tail(str))

IsContinuation(b, i) == i <= Len(b) /\ b[i] >= 128 /\ b[i] < 192

\* The decoded string, or ok = FALSE for the UnicodeDecodeError of a sequence
\* that is cut short or malformed.
RECURSIVE utf8_decode(_, _, _)
utf8_decode(b, i, acc) ==
    IF i > Len(b) THEN [ok |-> TRUE, str |-> acc]
    ELSE IF b[i] < 128 THEN utf8_decode(b, i + 1, Append(acc, b[i]))
    ELSE IF b[i] >= 194 /\ b[i] < 224 /\ IsContinuation(b, i + 1)
    THEN utf8_decode(b, i + 2,
                     Append(acc, (b[i] - 192) * 64 + (b[i + 1] - 128)))
    ELSE IF b[i] >= 224 /\ b[i] < 240 /\ IsContinuation(b, i + 1)
            /\ IsContinuation(b, i + 2)
    THEN utf8_decode(b, i + 3,
                     Append(acc, (b[i] - 224) * 4096 + (b[i + 1] - 128) * 64
                                 + (b[i + 2] - 128)))
    ELSE [ok |-> FALSE, str |-> acc]

(***************************************************************************)
(* JSON values: strings of code points, booleans, null, arrays and         *)
(* objects (a sequence of <<key, value>> pairs, in insertion order).       *)
(***************************************************************************)
JStr(str) == [t |-> "str", v |-> str]
JBool(b) == [t |-> "bool", v |-> b]
JNull == [t |-> "null", v |-> <<>>]
JArr(items) == [t |-> "arr", v |-> items]
JObj(pairs) == [t |-> "obj", v |-> pairs]

\* The lower-case hexadecimal digit d as a character.
HexDigit(d) == IF d < 10 THEN 48 + d ELSE 87 + d

\* The value of a hexadecimal digit character, or -1.
HexValue(c) ==
    IF c >= 48 /\ c <= 57 THEN c - 48
    ELSE IF c >= 97 /\ c <= 102 THEN c - 87
    ELSE IF c >= 65 /\ c <= 70 THEN c - 55
    ELSE -1

\* json.dumps of one character of a string (ensure_ascii is left at True):
\* the quote and the backslash are escaped, \n, \t, \r, \b and \f are written
\* as such, and every other character outside 32..126 as \uXXXX.
dumps_char(c) ==
    IF c = 34 THEN <<92, 34>>
    ELSE IF c = 92 THEN <<92, 92>>
    ELSE IF c = 10 THEN <<92, 110>>
    ELSE IF c = 9 THEN <<92, 116>>
    ELSE IF c = 13 THEN <<92, 114>>
    ELSE IF c = 8 THEN <<92, 98>>
    ELSE IF c = 12 THEN <<92, 102>>
    ELSE IF c >= 32 /\ c < 127 THEN <<c>>
    ELSE <<92, 117, HexDigit(c \div 4096), HexDigit((c \div 256) % 16),
           HexDigit((c \div 16) % 16), HexDigit(c % 16)>>

RECURSIVE dumps_chars(_)
dumps_chars(str) ==
    IF str = <<>> THEN <<>> ELSE dumps_char(Head(str)) \o dumps_chars(Tail(str))

dumps_str(str) == <<34>> \o dumps_chars(str) \o <<34>>

\* json.dumps(v) with the default separators ", " and ": ".
RECURSIVE json_dumps(_)
RECURSIVE dumps_items(_, _)
RECURSIVE dumps_pairs(_, _)
json_dumps(v) ==
    CASE v.t = "str" -> dumps_str(v.v)
      [] v.t = "bool" -> IF v.v THEN <<116, 114, 117, 101>>
                         ELSE <<102, 97, 108, 115, 101>>
      [] v.t = "null" -> <<110, 117, 108, 108>>
      [] v.t = "arr" -> <<91>> \o dumps_items(v.v, 1) \o <<93>>
      [] v.t = "obj" -> <<123>> \o dumps_pairs(v.v, 1) \o <<125>>

dumps_items(items, i) ==
    IF i > Len(items) THEN <<>>
    ELSE (IF i > 1 THEN <<44, 32>> ELSE <<>>)
         \o json_dumps(items[i]) \o dumps_items(items, i + 1)

dumps_pairs(pairs, i) ==
    IF i > Len(pairs) THEN <<>>
    ELSE (IF i > 1 THEN <<44, 32>> ELSE <<>>)
         \o dumps_str(pairs[i][1]) \o <<58, 32>> \o json_dumps(pairs[i][2])
         \o dumps_pairs(pairs, i + 1)

(***************************************************************************)
(* json.loads: the parser of the json module on a string.  A result is     *)
(* [ok, v, i]: whether a value was parsed, the value, and the index after  *)
(* it.  Numbers are not parsed (no payload of the model holds one).        *)
(***************************************************************************)
ParseError(i) == [ok |-> FALSE, v |-> JNull, i |-> i]
Parsed(v, i) == [ok |-> TRUE, v |-> v, i |-> i]

At(str, i) == IF i >= 1 /\ i <= Len(str) THEN str[i] ELSE -1

\* The index of the first character at or after i that is not JSON whitespace.
RECURSIVE skip_ws(_, _)
skip_ws(str, i) ==
    IF At(str, i) \in {32, 9, 10, 13} THEN skip_ws(str, i + 1) ELSE i

HasLiteral(str, i, lit) ==
    /\ i + Len(lit) - 1 <= Len(str)
    /\ SubSeq(str, i, i + Len(lit) - 1) = lit

\* The characters of a string literal from index i (after the opening quote)
\* to the closing quote, with the escapes replaced.
RECURSIVE parse_chars(_, _, _)
parse_chars(str, i, acc) ==
    LET c == At(str, i)
        e == At(str, i + 1)
        h == [k \in 1..4 |-> HexValue(At(str, i + 1 + k))]
    IN  IF c = -1 \/ c < 32 THEN ParseError(i)
        ELSE IF c = 34 THEN Parsed(JStr(acc), i + 1)
        ELSE IF c # 92 THEN parse_chars(str, i + 1, Append(acc, c))
        ELSE IF e \in {34, 92, 47} THEN parse_chars(str, i + 2, Append(acc, e))
        ELSE IF e = 110 THEN parse_chars(str, i + 2, Append(acc, 10))
        ELSE IF e = 116 THEN parse_chars(str, i + 2, Append(acc, 9))
        ELSE IF e = 114 THEN parse_chars(str, i + 2, Append(acc, 13))
        ELSE IF e = 98 THEN parse_chars(str, i + 2, Append(acc, 8))
        ELSE IF e = 102 THEN parse_chars(str, i + 2, Append(acc, 12))
        ELSE IF e = 117 /\ \A k \in 1..4 : h[k] >= 0
        THEN parse_chars(str, i + 6,
                         Append(acc, h[1] * 4096 + h[2] * 256 + h[3] * 16 + h[4]))
        ELSE ParseError(i)

RECURSIVE parse_value(_, _)
RECURSIVE parse_items(_, _, _)
RECURSIVE parse_pairs(_, _, _)
\* The JSON value that starts at index i.
parse_value(str, i) ==
    LET c == At(str, i)
    IN  IF c = 34 THEN parse_chars(str, i + 1, <<>>)
        ELSE IF c = 91
        THEN IF At(str, skip_ws(str, i + 1)) = 93
             THEN Parsed(JArr(<<>>), skip_ws(str, i + 1) + 1)
             ELSE parse_items(str, i + 1, <<>>)
        ELSE IF c = 123
        THEN IF At(str, skip_ws(str, i + 1)) = 125
             THEN Parsed(JObj(<<>>), skip_ws(str, i + 1) + 1)
             ELSE parse_pairs(str, skip_ws(str, i + 1), <<>>)
        ELSE IF HasLiteral(str, i, <<116, 114, 117, 101>>)
        THEN Parsed(JBool(TRUE), i + 4)
        ELSE IF HasLiteral(str, i, <<102, 97, 108, 115, 101>>)
        THEN Parsed(JBool(FALSE), i + 5)
        ELSE IF HasLiteral(str, i, <<110, 117, 108, 108>>)
        THEN Parsed(JNull, i + 4)
        ELSE ParseError(i)

\* The items of an array from index i, after "[" or ",".
parse_items(str, i, acc) ==
    LET r == parse_value(str, skip_ws(str, i))
        j == skip_ws(str, r.i)
    IN  IF ~r.ok THEN r
        ELSE IF At(str, j) = 44 THEN parse_items(str, j + 1, Append(acc, r.v))
        ELSE IF At(str, j) = 93 THEN Parsed(JArr(Append(acc, r.v)), j + 1)
        ELSE ParseError(j)

\* The pairs of an object from index i, where a key must start.
parse_pairs(str, i, acc) ==
    LET k == IF At(str, i) = 34 THEN parse_chars(str, i + 1, <<>>)
             ELSE ParseError(i)
        c == skip_ws(str, k.i)
        r == parse_value(str, skip_ws(str, c + 1))
        j == skip_ws(str, r.i)
    IN  IF ~k.ok THEN k
        ELSE IF At(str, c) # 58 THEN ParseError(c)
        ELSE IF ~r.ok THEN r
        ELSE IF At(str, j) = 44
        THEN parse_pairs(str, skip_ws(str, j + 1), Append(acc, <<k.v.v, r.v>>))
        ELSE IF At(str, j) = 125
        THEN Parsed(JObj(Append(acc, <<k.v.v, r.v>>)), j + 1)
        ELSE ParseError(j)

\* json.loads(b) of a byte sequence: the value, or the exception raised.
json_loads(b) ==
    LET d == utf8_decode(b, 1, <<>>)
        r == parse_value(d.str, skip_ws(d.str, 1))
    IN  IF ~d.ok THEN [err |-> "UnicodeDecodeError", v |-> JNull]
        ELSE IF ~r.ok \/ skip_ws(d.str, r.i) <= Len(d.str)
        THEN [err |-> "JSONDecodeError", v |-> JNull]
        ELSE [err |-> "none", v |-> r.v]

(***************************************************************************)
(* send_sway_msg (lines 273-290) and recv_sway_msg (lines 293-338).        *)
(***************************************************************************)
\* Line 281: the payload length written in the header is len(payload), the
\* number of characters of the str.
payload_length(payload) == Len(payload)

\* Lines 281-288: the bytes handed to sock.sendall.
send_sway_msg_data(msg, payload, order) ==
    MAGIC_STR
        \o to_bytes(U32(payload_length(payload)), order)
        \o to_bytes(SwayMessage[msg], order)
        \o utf8_encode(payload)

\* Lines 312-315: the payload length of a received header.
recv_payload_len(header, order) ==
    from_bytes(Slice(header, PAYLOAD_LENGTH_BEGIN, PAYLOAD_LENGTH_END), order)

\* A reader that takes the type code in network byte order.
recv_payload_type_network_order(header, order) ==
    from_bytes(Slice(header, PAYLOAD_TYPE_BEGIN, PAYLOAD_TYPE_END), "big")

\* Lines 318-321: the payload type of a received header.
recv_payload_type(header, order) ==
    from_bytes(Slice(header, PAYLOAD_TYPE_BEGIN, PAYLOAD_TYPE_END), order)

\* Lines 328-338: the result of recv_sway_msg on a received header and payload.
\* The type is classified first, so the RuntimeError of line 334 comes before
\* any exception of json.loads.
recv_sway_msg_result(header, payload, order) ==
    LET t == ClassifyPayloadType(recv_payload_type(header, order))
        j == json_loads(payload)
    IN  IF t.cls = "error" THEN [err |-> UnexpectedType, type |-> t, value |-> JNull]
        ELSE [err |-> j.err, type |-> t, value |-> j.v]

(***************************************************************************)
(* State.                                                                  *)
(***************************************************************************)
VARIABLES
    \* ---- the process environment read by get_sway_socket_path
    environ,          \* [SWAYSOCK: <<>> (unset) or <<path>>, stdout: Seq of symbols]
    \* ---- SwayClient
    consumer_stop,    \* attribute _consumer_stop:   "event" or "None"
    consumer_thread,  \* attribute _consumer_thread: "thread" or "None"
    event_stop,       \* attribute _event_stop:   AttrUnset, AttrNone or AttrRef(s)
    event_thread,     \* attribute _event_thread: AttrUnset, AttrNone or AttrRef(s)
    message_queue,    \* _message_queue: the request ids waiting, head first
    consumerStopSet,  \* the threading.Event made in __init__ is set
    \* ---- history of the calls made on the client
    requests,         \* the requests in the order of their queue.put
    raised,           \* [op, err] of every exception a call has raised
    closed,           \* shutdown() has been called
    \* ---- message_dispatch_worker
    cmdPc,            \* "connect", "get", "recv", "spinning", "exited" or
                      \* "failed"
    cmdErr,           \* the exception that ended the worker, or "none"
    cmdCur,           \* the request taken from the queue (0: none)
    written,          \* the request ids whose frame was written to cmd_sock
    handled,          \* the res_handler calls made: [req, res]
    respRead,         \* response frames read completely from cmd_sock
    \* ---- the compositor's end of the command connection
    cmdSockIn,        \* chunks of response frames not yet read by the worker
    compAnswered,     \* requests the compositor has answered
    answers,          \* the response frames the compositor has written
    \* ---- event_worker, one per subscribe() call
    nSubs,            \* subscribe() calls made
    evPc,             \* "none", "connect", "handshake", "loop", "exited", "failed"
    evErr,            \* the exception that ended the worker, or "none"
    evStopSet,        \* the threading.Event made by subscribe() number s is set
    evSockIn,         \* frames waiting on the worker's sub_sock
    evHandled,        \* event_handler calls made for subscription s
    evWaited,         \* a timeout period has passed in the worker's current recv
    evSinceStop,      \* timeout periods passed since the stop flag was set
    evLoopEntered,    \* the worker reached the read loop of line 259
    evReply,          \* the payload the compositor answered the worker's
                      \* SUBSCRIBE with, or "none"
    \* ---- one frame through send_sway_msg and recv_sway_msg
    byteorder,        \* sys.byteorder
    peerCode,         \* the type code of the frame the peer wrote (command 0
                      \* until it writes one)
    codMsg,           \* the SwayMessage given to send_sway_msg
    codValue,         \* the JSON value the payload was made from
    codPayload,       \* the payload str given to send_sway_msg
    wire,             \* the bytes written to the socket and not yet received
    recv_header,      \* recv_header of recv_sway_msg
    recv_payload,     \* recv_payload of recv_sway_msg
    codPc,            \* "idle", "send", "recv_header", "recv_payload", "done"
    codResult,        \* what recv_sway_msg returned or raised
    \* ---- one event_worker and its socket, chunk by chunk
    stEvents,         \* the events list given to event_worker
    stPc,             \* "idle", "connect", "handshake", "loop", "exited", "failed"
    stErr,            \* the exception that ended the worker, or "none"
    stStop,           \* the worker's stop event is set
    stSent,           \* the frames the worker has written to sub_sock
    stSock,           \* the chunks [id, part] waiting on sub_sock
    stWritten,        \* the frames the compositor has begun to write
    stPayloadDue,     \* the payload of the last of them is not written yet
    stRead,           \* where recv_sway_msg is: "header", "payload", or
                      \* "garbage" when it reads from the middle of a frame
    stCur,            \* the frame whose header recv_sway_msg holds (0: none)
    stFramesRead,     \* the frames recv_sway_msg has received completely
    stDelivered,      \* the frames passed to event_handler
    stLost,           \* the frames of which received bytes were thrown away
    \* ---- the SwayWorkspaces widgets of two bars and the GLib main loop
    wsObj,            \* the Workspace objects made so far, by identity
    wsClass,          \* the list SwayWorkspaces._workspaces of the class
    wsOwn,            \* per widget: has it an attribute _workspaces, and the list
    wsBox,            \* per widget: the children of its _button_box, in order
    wsQueue,          \* the callbacks waiting to run, in the order posted
    wsRunning,        \* the callbacks that have begun and not ended
    wsPosted,         \* the number of handler calls made by the workers
    wsInitSent,       \* per widget: its GET_WORKSPACES response has come
    wsThreads,        \* the threads that have run a callback's body
    wsLast,           \* the last callback that ended, and the display before it
    wsAlone,          \* per widget: the names its own callbacks ask it to show
    wsMarked,         \* per widget: the names its own configuration made
                      \* persistent
    \* ---- the compositor's end of the first widget's two connections
    syComp,           \* the names of the workspaces the compositor has
    sySnap,           \* the GET_WORKSPACES reply, once the compositor made it
    sySubscribed,     \* the compositor has taken the SUBSCRIBE of the widget
    \* ---- the StatusNotifierWatcher of the tray
    trItems,          \* StatusNotifierWatcher._items
    trHosts,          \* StatusNotifierWatcher._hosts
    trSignals,        \* the signals the watcher has emitted, in order
    trCalls,          \* the number of calls and bus signals handled
    trLast            \* the last loss of a name's owner: the service, and
                      \* _items before and after it

clientVars == <<consumer_stop, consumer_thread, event_stop, event_thread,
                message_queue, consumerStopSet, requests, raised, closed>>
cmdVars == <<cmdPc, cmdErr, cmdCur, written, handled, respRead, cmdSockIn,
             compAnswered, answers>>
evVars == <<nSubs, evPc, evErr, evStopSet, evSockIn, evHandled, evWaited,
            evSinceStop, evLoopEntered, evReply>>

\* The subscribe() calls made on the client: a first one and a second one.
Subs == {1, 2}

codecVars == <<byteorder, peerCode, codMsg, codValue, codPayload, wire, recv_header,
               recv_payload, codPc, codResult>>

streamVars == <<stEvents, stPc, stErr, stStop, stSent, stSock, stWritten,
                stPayloadDue, stRead, stCur, stFramesRead, stDelivered, stLost>>

\* The state outside the client, outside the codec, and outside the single
\* event worker.
widgetVars == <<wsObj, wsClass, wsOwn, wsBox, wsQueue, wsRunning, wsPosted,
                wsInitSent, wsThreads, wsLast, wsAlone, wsMarked>>

syncVars == <<syComp, sySnap, sySubscribed>>
trayVars == <<trItems, trHosts, trSignals, trCalls, trLast>>

outsideClient == <<codecVars, streamVars, widgetVars, syncVars, trayVars>>
outsideCodec == <<environ, clientVars, cmdVars, evVars, streamVars, widgetVars,
                  syncVars, trayVars>>
outsideStream == <<environ, clientVars, cmdVars, evVars, codecVars, widgetVars,
                   syncVars, trayVars>>
outsideWidget == <<environ, clientVars, cmdVars, evVars, codecVars, streamVars,
                   syncVars, trayVars>>
outsideSync == <<environ, clientVars, cmdVars, evVars, codecVars, streamVars,
                 trayVars>>
outsideTray == <<environ, clientVars, cmdVars, evVars, codecVars, streamVars,
                 widgetVars, syncVars>>

\* The values of an attribute that __init__ does not assign (lines 80-84 only
\* annotate _event_thread and _event_stop): no attribute, None, or the object
\* made by subscribe() number s.
AttrUnset == [defined |-> FALSE, ref |-> 0]
AttrNone == [defined |-> TRUE, ref |-> 0]
AttrRef(s) == [defined |-> TRUE, ref |-> s]

(***************************************************************************)
(* get_sway_socket_path (lines 165-190).                                   *)
(***************************************************************************)
Whitespace == {" ", "\n"}

RECURSIVE lstrip(_)
lstrip(s) == IF s # <<>> /\ Head(s) \in Whitespace THEN lstrip(Tail(s)) ELSE s

RECURSIVE rstrip(_)
rstrip(s) ==
    IF s # <<>> /\ s[Len(s)] \in Whitespace
    THEN rstrip(SubSeq(s, 1, Len(s) - 1))
    ELSE s

\* str.strip() on a sequence of symbols.
strip(s) == rstrip(lstrip(s))

\* The path returned: os.environ.get("SWAYSOCK") when the variable is set (also
\* when it is empty), else the stripped stdout of `sway --get-socketpath`.  The
\* test of line 188 never holds: path is a str by then.
get_sway_socket_path(env) ==
    IF env.SWAYSOCK # <<>> THEN env.SWAYSOCK[1] ELSE strip(env.stdout)

\* The path the compositor listens on.
CompositorPath == <<"/run/sway.sock">>

\* socket.connect succeeds on the compositor's path and raises OSError otherwise.
ConnectOk(path) == path = CompositorPath

Environments ==
    { [SWAYSOCK |-> <<CompositorPath>>, stdout |-> <<>>],
      [SWAYSOCK |-> <<>>, stdout |-> CompositorPath \o <<"\n">>],
      [SWAYSOCK |-> <<>>, stdout |-> <<>>],
      [SWAYSOCK |-> <<<<>>>>, stdout |-> CompositorPath \o <<"\n">>] }


(***************************************************************************)
(* The callers of the client.                                              *)
(***************************************************************************)
\* The threads that call send and the message each one sends: GET_WORKSPACES
\* (sway_workspaces.py line 89) and RUN_COMMAND (line 189).
Senders ==
    { [caller |-> "main", msg |-> "GET_WORKSPACES"],
      [caller |-> "other", msg |-> "RUN_COMMAND"] }

\* The exceptions raised so far, after a call of op that ended with outcome.
Raised(op, outcome) ==
    IF outcome = "returned" THEN raised
    ELSE raised \cup {[op |-> op, err |-> outcome]}

(***************************************************************************)
(* SwayClient (lines 73-162).                                              *)
(***************************************************************************)
\* __init__ (lines 89-102): the queue, the stop event and the started consumer
\* thread.  _event_stop and _event_thread are not assigned.
ClientInit ==
    /\ message_queue = <<>>
    /\ consumer_stop = "event"
    /\ consumerStopSet = FALSE
    /\ consumer_thread = "thread"
    /\ event_stop = AttrUnset
    /\ event_thread = AttrUnset
    /\ requests = <<>>
    /\ closed = FALSE
    /\ raised = {}

\* send (lines 104-118): queue.put of the request, whatever the client's state.
send(r) ==
    /\ Len(requests) < MaxReqs
    /\ requests' = Append(requests, r)
    /\ message_queue' = Append(message_queue, Len(requests) + 1)
    /\ raised' = Raised("send", "returned")
    /\ UNCHANGED <<consumer_stop, consumer_thread, event_stop, event_thread,
                   consumerStopSet, closed, environ, outsideClient>>
    /\ UNCHANGED cmdVars
    /\ UNCHANGED evVars

\* subscribe (lines 120-140): a new stop event and a new started event thread
\* replace the attributes; the ones they held are not looked at.
subscribe ==
    /\ nSubs < Cardinality(Subs)
    /\ nSubs' = nSubs + 1
    /\ event_stop' = AttrRef(nSubs + 1)
    /\ event_thread' = AttrRef(nSubs + 1)
    /\ evPc' = [evPc EXCEPT ![nSubs + 1] = "connect"]
    /\ raised' = Raised("subscribe", "returned")
    /\ UNCHANGED <<consumer_stop, consumer_thread, message_queue,
                   consumerStopSet, requests, closed, environ, outsideClient>>
    /\ UNCHANGED <<evErr, evStopSet, evSockIn, evHandled, evWaited,
                   evSinceStop, evLoopEntered, evReply>>
    /\ UNCHANGED cmdVars

\* The body of unsubscribe (lines 144-148).  Reading an attribute that was never
\* assigned raises AttributeError at line 144, before anything is changed.
unsubscribe_raises == ~event_stop.defined

unsubscribe_body ==
    /\ evStopSet' = IF event_stop.defined /\ event_stop.ref \in Subs
                    THEN [evStopSet EXCEPT ![event_stop.ref] = TRUE]
                    ELSE evStopSet
    /\ event_stop' = IF unsubscribe_raises THEN event_stop ELSE AttrNone
    /\ event_thread' = IF unsubscribe_raises THEN event_thread ELSE AttrNone

UnsubscribeOutcome == IF unsubscribe_raises THEN "AttributeError" ELSE "returned"

\* An unsubscribe that also sets the stop event of the consumer thread.
unsubscribe_stops_consumer ==
    /\ unsubscribe_body
    /\ raised' = Raised("unsubscribe", UnsubscribeOutcome)
    /\ consumerStopSet' = TRUE
    /\ UNCHANGED <<consumer_stop, consumer_thread, message_queue, requests,
                   closed, environ, outsideClient>>
    /\ UNCHANGED <<nSubs, evPc, evErr, evSockIn, evHandled, evWaited,
                   evSinceStop, evLoopEntered, evReply>>
    /\ UNCHANGED cmdVars

\* unsubscribe (lines 142-148).
unsubscribe ==
    /\ unsubscribe_body
    /\ raised' = Raised("unsubscribe", UnsubscribeOutcome)
    /\ UNCHANGED <<consumer_stop, consumer_thread, message_queue,
                   consumerStopSet, requests, closed, environ, outsideClient>>
    /\ UNCHANGED <<nSubs, evPc, evErr, evSockIn, evHandled, evWaited,
                   evSinceStop, evLoopEntered, evReply>>
    /\ UNCHANGED cmdVars

\* shutdown (lines 150-162): sets the consumer's stop event, drops the two
\* consumer attributes, then runs unsubscribe.
shutdown ==
    /\ consumerStopSet' = (consumerStopSet \/ consumer_stop = "event")
    /\ consumer_stop' = "None"
    /\ consumer_thread' = "None"
    /\ unsubscribe_body
    /\ closed' = TRUE
    /\ raised' = Raised("shutdown", UnsubscribeOutcome)
    /\ UNCHANGED <<message_queue, requests, environ, outsideClient>>
    /\ UNCHANGED <<nSubs, evPc, evErr, evSockIn, evHandled, evWaited,
                   evSinceStop, evLoopEntered, evReply>>
    /\ UNCHANGED cmdVars


(***************************************************************************)
(* message_dispatch_worker (lines 193-226) and the compositor's end of the *)
(* command connection.                                                     *)
(***************************************************************************)
CmdInit ==
    /\ cmdPc = "connect"
    /\ cmdErr = "none"
    /\ cmdCur = 0
    /\ written = <<>>
    /\ handled = <<>>
    /\ respRead = 0
    /\ cmdSockIn = <<>>
    /\ compAnswered = 0
    /\ answers = <<>>

\* A queue that hands out its newest item first.
queue_get_lifo(q) == [item |-> q[Len(q)], rest |-> SubSeq(q, 1, Len(q) - 1)]

\* queue.Queue.get (line 214): the oldest item and the queue without it.
queue_get(q) == [item |-> Head(q), rest |-> Tail(q)]

\* Lines 207-208: the socket is made and connected inside the worker thread; an
\* exception of get_sway_socket_path or of connect ends the thread.
cmd_connect ==
    /\ cmdPc = "connect"
    /\ IF ConnectOk(get_sway_socket_path(environ))
       THEN cmdPc' = "get" /\ cmdErr' = cmdErr
       ELSE cmdPc' = "failed" /\ cmdErr' = "OSError"
    /\ UNCHANGED <<cmdCur, written, handled, respRead, cmdSockIn, compAnswered,
                   answers, environ, outsideClient>>
    /\ UNCHANGED clientVars
    /\ UNCHANGED evVars

\* The compositor has closed its end of the command connection: the end of
\* the stream is the last thing the worker's socket holds.
PeerClosed == cmdSockIn # <<>> /\ cmdSockIn[Len(cmdSockIn)].part = "eof"

\* Lines 214 and 222: an item is taken from the queue and its frame is written
\* to cmd_sock.  The stop event is not read on this path.  sendall on a socket
\* whose peer has closed raises BrokenPipeError, which ends the thread.
cmd_get ==
    /\ cmdPc = "get"
    /\ message_queue # <<>>
    /\ message_queue' = queue_get(message_queue).rest
    /\ IF PeerClosed
       THEN /\ cmdPc' = "failed"
            /\ cmdErr' = "BrokenPipeError"
            /\ UNCHANGED <<cmdCur, written>>
       ELSE /\ cmdCur' = queue_get(message_queue).item
            /\ written' = Append(written, queue_get(message_queue).item)
            /\ cmdPc' = "recv"
            /\ cmdErr' = cmdErr
    /\ UNCHANGED <<handled, respRead, cmdSockIn, compAnswered, answers,
                   environ, outsideClient>>
    /\ UNCHANGED <<consumer_stop, consumer_thread, event_stop, event_thread,
                   consumerStopSet, requests, raised, closed>>
    /\ UNCHANGED evVars

\* Lines 215-220: queue.Empty after the one second wait; the worker returns when
\* the stop event is set and waits again otherwise.
cmd_get_timeout ==
    /\ cmdPc = "get"
    /\ message_queue = <<>>
    /\ cmdPc' = IF consumerStopSet THEN "exited" ELSE "get"
    /\ UNCHANGED <<cmdErr, cmdCur, written, handled, respRead, cmdSockIn,
                   compAnswered, answers, environ, outsideClient>>
    /\ UNCHANGED clientVars
    /\ UNCHANGED evVars

\* A receive that returns as soon as the header has arrived.
ResponseCompleteAtHeader(chunk) == chunk.part \in {"header", "payload"}

\* The loops of lines 308-309 and 325-326 on cmd_sock (a blocking socket): the
\* frame has been received once its payload has.
ResponseComplete(chunk) == chunk.part = "payload"

\* A worker that calls the handler for a frame of any kind.
DispatchEveryKind(frame, wanted) ==
    LET t == ClassifyPayloadType(frame.code)
    IN  IF t.cls = "error"
        THEN [err |-> UnexpectedType, call |-> FALSE, res |-> ""]
        ELSE IF frame.payload = "invalid"
        THEN [err |-> "JSONDecodeError", call |-> FALSE, res |-> ""]
        ELSE [err |-> "none", call |-> TRUE, res |-> t.name]

\* The outcome of lines 328-338 on a received frame and of the isinstance test
\* that follows the call (line 225, line 269): the exception raised, or whether
\* the handler is called and with which kind.
Dispatch(frame, wanted) ==
    LET t == ClassifyPayloadType(frame.code)
    IN  IF t.cls = "error"
        THEN [err |-> UnexpectedType, call |-> FALSE, res |-> ""]
        ELSE IF frame.payload = "invalid"
        THEN [err |-> "JSONDecodeError", call |-> FALSE, res |-> ""]
        ELSE [err |-> "none", call |-> t.cls = wanted, res |-> t.name]

\* recv_sway_msg on cmd_sock (line 224) and lines 225-226: the worker blocks
\* until the whole response frame is received, classifies and parses it, and
\* calls res_handler for a SwayMessage.  An exception of recv_sway_msg ends the
\* thread.
cmd_recv ==
    /\ cmdPc = "recv"
    /\ cmdSockIn # <<>>
    /\ Head(cmdSockIn).part # "eof"
    /\ cmdSockIn' = Tail(cmdSockIn)
    /\ respRead' = IF Head(cmdSockIn).part = "payload" THEN respRead + 1
                   ELSE respRead
    /\ IF ResponseComplete(Head(cmdSockIn))
       THEN LET d == Dispatch(Head(cmdSockIn), "SwayMessage")
            IN  /\ cmdErr' = d.err
                /\ cmdPc' = IF d.err = "none" THEN "get" ELSE "failed"
                /\ handled' = IF d.call
                              THEN Append(handled, [req |-> cmdCur, res |-> d.res])
                              ELSE handled
                /\ cmdCur' = 0
       ELSE UNCHANGED <<cmdErr, cmdPc, handled, cmdCur>>
    /\ UNCHANGED <<written, compAnswered, answers, environ, outsideClient>>
    /\ UNCHANGED clientVars
    /\ UNCHANGED evVars

\* The loop of lines 308-309 at the end of the stream: sock.recv returns b""
\* without raising, recv_header does not grow, and the loop calls recv again,
\* for ever.  The worker neither returns nor raises.
cmd_recv_eof ==
    /\ cmdPc = "recv"
    /\ cmdSockIn # <<>>
    /\ Head(cmdSockIn).part = "eof"
    /\ cmdPc' = "spinning"
    /\ UNCHANGED <<cmdErr, cmdCur, written, handled, respRead, cmdSockIn,
                   compAnswered, answers, environ, outsideClient>>
    /\ UNCHANGED clientVars
    /\ UNCHANGED evVars

\* The frames the compositor may answer a request with: the request's own type
\* with a JSON payload or a broken one, an event type, or an unknown type.
Responses(req) ==
    { [code |-> SwayMessage[req.msg], payload |-> "json"],
      [code |-> SwayMessage[req.msg], payload |-> "invalid"],
      [code |-> SwayEvent.WORKSPACE, payload |-> "json"],
      [code |-> UnknownCode, payload |-> "json"] }

\* The compositor reads the next request frame and writes the response frame:
\* its header, then its payload.
comp_respond(r) ==
    /\ compAnswered < Len(written)
    /\ ~PeerClosed
    /\ r \in Responses(requests[written[compAnswered + 1]])
    /\ compAnswered' = compAnswered + 1
    /\ answers' = Append(answers, r)
    /\ cmdSockIn' = cmdSockIn \o
                      << [part |-> "header", code |-> r.code, payload |-> r.payload],
                         [part |-> "payload", code |-> r.code, payload |-> r.payload] >>
    /\ UNCHANGED <<cmdPc, cmdErr, cmdCur, written, handled, respRead, environ,
                   outsideClient>>
    /\ UNCHANGED clientVars
    /\ UNCHANGED evVars

\* The compositor closes its end of the command connection (it exits, or drops
\* the client) after the frames it has written.
comp_close ==
    /\ cmdPc \in {"get", "recv"}
    /\ ~PeerClosed
    /\ cmdSockIn' = Append(cmdSockIn, [part |-> "eof", code |-> U32(0),
                                       payload |-> ""])
    /\ UNCHANGED <<cmdPc, cmdErr, cmdCur, written, handled, respRead,
                   compAnswered, answers, environ, outsideClient>>
    /\ UNCHANGED clientVars
    /\ UNCHANGED evVars

(***************************************************************************)
(* event_worker (lines 229-270), one thread per subscribe() call, and the  *)
(* compositor's end of each event connection.                              *)
(*                                                                         *)
(* Time is counted in read-timeout periods (line 250: one second).  Tick   *)
(* lets one period pass; a worker that can take a step takes it before the *)
(* period ends, and a recv that has waited a whole period with nothing to  *)
(* read raises socket.timeout before the next one ends.                    *)
(***************************************************************************)
EvInit ==
    /\ nSubs = 0
    /\ evPc = [s \in Subs |-> "none"]
    /\ evErr = [s \in Subs |-> "none"]
    /\ evStopSet = [s \in Subs |-> FALSE]
    /\ evSockIn = [s \in Subs |-> <<>>]
    /\ evHandled = [s \in Subs |-> 0]
    /\ evWaited = [s \in Subs |-> FALSE]
    /\ evSinceStop = [s \in Subs |-> 0]
    /\ evLoopEntered = [s \in Subs |-> FALSE]
    /\ evReply = [s \in Subs |-> "none"]

\* Lines 245-253: the socket is made and connected inside the worker thread, the
\* timeout is set and the SUBSCRIBE frame written.
ev_connect(s) ==
    /\ evPc[s] = "connect"
    /\ IF ConnectOk(get_sway_socket_path(environ))
       THEN evPc' = [evPc EXCEPT ![s] = "handshake"] /\ evErr' = evErr
       ELSE /\ evPc' = [evPc EXCEPT ![s] = "failed"]
            /\ evErr' = [evErr EXCEPT ![s] = "OSError"]
    /\ evWaited' = [evWaited EXCEPT ![s] = FALSE]
    /\ UNCHANGED <<nSubs, evStopSet, evSockIn, evHandled, evSinceStop,
                   evLoopEntered, evReply, environ, outsideClient>>
    /\ UNCHANGED clientVars
    /\ UNCHANGED cmdVars

\* The payloads the compositor may answer a SUBSCRIBE with: an object whose
\* "success" is true, is false or is missing, or an array.
SubscribeReplies == {"success_true", "success_false", "success_absent", "array"}

\* The compositor answers the SUBSCRIBE frame of connection s.
comp_subscribe_reply(s, p) ==
    /\ evPc[s] = "handshake"
    /\ evReply[s] = "none"
    /\ p \in SubscribeReplies
    /\ evReply' = [evReply EXCEPT ![s] = p]
    /\ evSockIn' = [evSockIn EXCEPT
                      ![s] = Append(@, [code |-> SwayMessage.SUBSCRIBE,
                                        payload |-> p])]
    /\ UNCHANGED <<nSubs, evPc, evErr, evStopSet, evHandled, evWaited,
                   evSinceStop, evLoopEntered, environ, outsideClient>>
    /\ UNCHANGED clientVars
    /\ UNCHANGED cmdVars

\* A test of the response that rejects only an explicit "success": false.
SubscribeOutcomeOnlyFalse(frame) ==
    LET d == Dispatch(frame, "SwayMessage")
    IN  IF d.err # "none" THEN d.err
        ELSE IF frame.payload = "array" THEN "AttributeError"
        ELSE IF frame.payload = "success_false" THEN SubscribeFailed
        ELSE "none"

\* Lines 254-257 on the response to SUBSCRIBE: the exception raised, or "none"
\* when the worker goes on to the read loop.  A list has no get method.
SubscribeOutcome(frame) ==
    LET d == Dispatch(frame, "SwayMessage")
    IN  IF d.err # "none" THEN d.err
        ELSE IF frame.payload = "array" THEN "AttributeError"
        ELSE IF frame.payload = "success_true" THEN "none"
        ELSE SubscribeFailed

\* Lines 254-257: the response to SUBSCRIBE is received and tested; any
\* exception ends the thread before the loop of line 259.
ev_handshake(s) ==
    /\ evPc[s] = "handshake"
    /\ evSockIn[s] # <<>>
    /\ evSockIn' = [evSockIn EXCEPT ![s] = Tail(@)]
    /\ LET err == SubscribeOutcome(Head(evSockIn[s]))
       IN  /\ evErr' = [evErr EXCEPT ![s] = err]
           /\ evPc' = [evPc EXCEPT
                         ![s] = IF err = "none" THEN "loop" ELSE "failed"]
           /\ evLoopEntered' = [evLoopEntered EXCEPT ![s] = (err = "none")]
    /\ evWaited' = [evWaited EXCEPT ![s] = FALSE]
    /\ UNCHANGED <<nSubs, evStopSet, evHandled, evSinceStop, evReply, environ,
                   outsideClient>>
    /\ UNCHANGED clientVars
    /\ UNCHANGED cmdVars

\* Line 254 with no response within the timeout set at line 250: socket.timeout
\* is not caught outside the loop and ends the thread.
ev_handshake_timeout(s) ==
    /\ evPc[s] = "handshake"
    /\ evSockIn[s] = <<>>
    /\ evWaited[s]
    /\ evPc' = [evPc EXCEPT ![s] = "failed"]
    /\ evErr' = [evErr EXCEPT ![s] = "socket.timeout"]
    /\ UNCHANGED <<nSubs, evStopSet, evSockIn, evHandled, evWaited,
                   evSinceStop, evLoopEntered, evReply, environ,
                   outsideClient>>
    /\ UNCHANGED clientVars
    /\ UNCHANGED cmdVars

\* The frames the compositor may write on an event connection: an event with
\* a JSON payload or a broken one, a frame with a command type code, and one
\* with an unknown type code.
EventFrames ==
    { [code |-> SwayEvent.WORKSPACE, payload |-> "json"],
      [code |-> SwayEvent.WORKSPACE, payload |-> "invalid"],
      [code |-> SwayMessage.GET_WORKSPACES, payload |-> "json"],
      [code |-> UnknownCode, payload |-> "json"] }

\* The compositor writes a frame on the event connection of a worker that is
\* in its read loop, once the frame before it has been read.
comp_event(s, f) ==
    /\ evPc[s] = "loop"
    /\ evSockIn[s] = <<>>
    /\ evHandled[s] < MaxEvents
    /\ f \in EventFrames
    /\ evSockIn' = [evSockIn EXCEPT ![s] = Append(@, f)]
    /\ UNCHANGED <<nSubs, evPc, evErr, evStopSet, evHandled, evWaited,
                   evSinceStop, evLoopEntered, evReply, environ,
                   outsideClient>>
    /\ UNCHANGED clientVars
    /\ UNCHANGED cmdVars

\* Lines 260-261 and 269-270: a frame is received, and event_handler called for
\* a SwayEvent.  The stop event is not read on this path; an exception other
\* than socket.timeout ends the thread.
ev_recv(s) ==
    /\ evPc[s] = "loop"
    /\ evSockIn[s] # <<>>
    /\ evSockIn' = [evSockIn EXCEPT ![s] = Tail(@)]
    /\ LET d == Dispatch(Head(evSockIn[s]), "SwayEvent")
       IN  /\ evErr' = [evErr EXCEPT ![s] = d.err]
           /\ evPc' = [evPc EXCEPT
                         ![s] = IF d.err = "none" THEN "loop" ELSE "failed"]
           /\ evHandled' = [evHandled EXCEPT
                              ![s] = IF d.call THEN @ + 1 ELSE @]
    /\ evWaited' = [evWaited EXCEPT ![s] = FALSE]
    /\ UNCHANGED <<nSubs, evStopSet, evSinceStop, evLoopEntered, evReply,
                   environ, outsideClient>>
    /\ UNCHANGED clientVars
    /\ UNCHANGED cmdVars

\* Lines 262-267: socket.timeout after a period with nothing to read; the worker
\* returns when its stop event is set and reads again otherwise.
ev_timeout(s) ==
    /\ evPc[s] = "loop"
    /\ evSockIn[s] = <<>>
    /\ evWaited[s]
    /\ evPc' = [evPc EXCEPT ![s] = IF evStopSet[s] THEN "exited" ELSE "loop"]
    /\ evWaited' = [evWaited EXCEPT ![s] = FALSE]
    /\ UNCHANGED <<nSubs, evErr, evStopSet, evSockIn, evHandled, evSinceStop,
                   evLoopEntered, evReply, environ, outsideClient>>
    /\ UNCHANGED clientVars
    /\ UNCHANGED cmdVars

\* A worker blocked in recv on its event socket.
Receiving(s) == evPc[s] \in {"handshake", "loop"}

\* One read-timeout period passes; the periods since its stop event was set
\* are counted for a worker that is still receiving.
Tick ==
    /\ \A s \in Subs :
          /\ evPc[s] # "connect"
          /\ Receiving(s) => (evSockIn[s] = <<>> /\ ~evWaited[s])
    /\ \E s \in Subs : Receiving(s)
    /\ evWaited' = [s \in Subs |-> Receiving(s)]
    /\ evSinceStop' = [s \in Subs |->
                         IF evStopSet[s] /\ Receiving(s) /\ evSinceStop[s] < MaxTicks
                         THEN evSinceStop[s] + 1
                         ELSE evSinceStop[s]]
    /\ UNCHANGED <<nSubs, evPc, evErr, evStopSet, evSockIn, evHandled,
                   evLoopEntered, evReply, environ, outsideClient>>
    /\ UNCHANGED clientVars
    /\ UNCHANGED cmdVars

(***************************************************************************)
(* One frame through the codec: send_sway_msg writes it to a stream socket *)
(* and recv_sway_msg reads it back.                                        *)
(***************************************************************************)
\* The strings of the payloads: "", "a", e-acute and a quote, the euro sign and
\* a backslash.
Strings == {<<>>, <<97>>, <<233, 34>>, <<8364, 92>>}

Scalars == {JStr(str) : str \in Strings} \cup {JBool(TRUE)}

\* The sequences over S of length at most n.
SeqsUpTo(S, n) == UNION {[1..k -> S] : k \in 0..n}

\* The keys of the objects: "k", and e-acute with a quote.
Keys == {<<107>>, <<233, 34>>}

Objects ==
    {JObj(<<>>)} \cup {JObj(<< <<k, v>> >>) : k \in Keys, v \in Scalars}

\* The JSON payloads: arrays of scalars, objects, and arrays of one object.
Payloads ==
    {JArr(items) : items \in SeqsUpTo(Scalars, MaxArr)}
        \cup Objects
        \cup {JArr(<<o>>) : o \in Objects}

\* The first bytes of the frame that follows on the stream.
FollowingBytes == MAGIC_STR

CodecIdle ==
    /\ byteorder = "little"
    /\ peerCode = U32(0)
    /\ codMsg = "RUN_COMMAND"
    /\ codValue = JNull
    /\ codPayload = <<>>
    /\ wire = <<>>
    /\ recv_header = <<>>
    /\ recv_payload = <<>>
    /\ codPc = "idle"
    /\ codResult = [err |-> "none", type |-> [cls |-> "", name |-> ""],
                    value |-> JNull]

CodecInit ==
    /\ byteorder \in ByteOrders
    /\ peerCode = U32(0)
    /\ codMsg \in DOMAIN SwayMessage
    /\ codValue \in Payloads
    /\ codPayload = json_dumps(codValue)
    /\ wire = <<>>
    /\ recv_header = <<>>
    /\ recv_payload = <<>>
    /\ codPc = "send"
    /\ codResult = [err |-> "none", type |-> [cls |-> "", name |-> ""],
                    value |-> JNull]

\* send_sway_msg (lines 281-290): sendall of the frame; the peer's next frame
\* follows it on the stream.
cod_send ==
    /\ codPc = "send"
    /\ wire' = send_sway_msg_data(codMsg, codPayload, byteorder) \o FollowingBytes
    /\ codPc' = "recv_header"
    /\ UNCHANGED <<byteorder, peerCode, codMsg, codValue, codPayload, recv_header,
                   recv_payload, codResult>>
    /\ UNCHANGED outsideCodec

\* The number of bytes sock.recv(bufsize) returns when avail bytes are there:
\* as many as asked for and available (whole), or a single byte.
RecvSize(bufsize, avail, whole) ==
    IF whole THEN (IF bufsize < avail THEN bufsize ELSE avail) ELSE 1

\* Lines 307-309: one sock.recv of the header loop.
cod_recv_header(whole) ==
    /\ codPc = "recv_header"
    /\ Len(recv_header) < HEADER_LEN
    /\ wire # <<>>
    /\ LET n == RecvSize(HEADER_LEN - Len(recv_header), Len(wire), whole)
       IN  /\ recv_header' = recv_header \o SubSeq(wire, 1, n)
           /\ wire' = SubSeq(wire, n + 1, Len(wire))
           /\ codPc' = IF Len(recv_header) + n < HEADER_LEN THEN "recv_header"
                       ELSE "recv_payload"
    /\ UNCHANGED <<byteorder, peerCode, codMsg, codValue, codPayload, recv_payload,
                   codResult>>
    /\ UNCHANGED outsideCodec

\* A bufsize that asks for everything the socket holds.
PayloadBufsizeGreedy == Len(wire)

\* The bufsize of line 326: recv_payload_len - len(recv_payload).
PayloadBufsize ==
    LET n == recv_payload_len(recv_header, byteorder)
    IN  IF n.hi = 1 THEN Len(wire) + 1 ELSE n.lo - Len(recv_payload)

\* Lines 324-326: one sock.recv of the payload loop.
cod_recv_payload(whole) ==
    /\ codPc = "recv_payload"
    /\ LessThanU32(Len(recv_payload), recv_payload_len(recv_header, byteorder))
    /\ wire # <<>>
    /\ LET n == RecvSize(PayloadBufsize, Len(wire), whole)
       IN  /\ recv_payload' = recv_payload \o SubSeq(wire, 1, n)
           /\ wire' = SubSeq(wire, n + 1, Len(wire))
    /\ UNCHANGED <<byteorder, peerCode, codMsg, codValue, codPayload, recv_header, codPc,
                   codResult>>
    /\ UNCHANGED outsideCodec

\* Lines 328-338: the payload loop has ended; the type is classified and the
\* payload parsed.
cod_return ==
    /\ codPc = "recv_payload"
    /\ ~LessThanU32(Len(recv_payload), recv_payload_len(recv_header, byteorder))
    /\ codResult' = recv_sway_msg_result(recv_header, recv_payload, byteorder)
    /\ codPc' = "done"
    /\ UNCHANGED <<byteorder, peerCode, codMsg, codValue, codPayload, wire, recv_header,
                   recv_payload>>
    /\ UNCHANGED outsideCodec

(***************************************************************************)
(* A frame written by the peer (the compositor) and read by recv_sway_msg. *)
(***************************************************************************)
\* The type codes a peer may write: every command code, every event code, and
\* codes of neither enumeration (with and without the top bit).
CommandCodes == {SwayMessage[m] : m \in DOMAIN SwayMessage}
EventCodes == {SwayEvent[e] : e \in DOMAIN SwayEvent}
UnknownCodes == {U32(13), UnknownCode, HighBit(1), HighBit(22)}
PeerCodes == CommandCodes \cup EventCodes \cup UnknownCodes

\* The payloads a peer may write, as the JSON text and the value it stands
\* for: [], {"k": true}, ["e-acute"] in plain UTF-8, the broken text "{", and
\* no payload at all.
PeerPayloads ==
    { [text |-> <<91, 93>>, value |-> JArr(<<>>)],
      [text |-> <<>>, value |-> JNull],
      [text |-> json_dumps(JObj(<< <<(<<107>>), JBool(TRUE)>> >>)),
       value |-> JObj(<< <<(<<107>>), JBool(TRUE)>> >>)],
      [text |-> <<91, 34, 233, 34, 93>>, value |-> JArr(<<JStr(<<233>>)>>)],
      [text |-> <<123>>, value |-> JNull] }

\* The frame of the i3-ipc protocol for a type code and a payload text: the
\* length field is the number of payload bytes.
peer_frame(code, text, order) ==
    MAGIC_STR
        \o to_bytes(U32(Len(utf8_encode(text))), order)
        \o to_bytes(code, order)
        \o utf8_encode(text)

\* The peer writes one frame, and its next frame after it.
peer_send(code, p) ==
    /\ codPc = "peer"
    /\ peerCode' = code
    /\ codPayload' = p.text
    /\ codValue' = p.value
    /\ wire' = peer_frame(code, p.text, byteorder) \o FollowingBytes
    /\ codPc' = "recv_header"
    /\ UNCHANGED <<byteorder, codMsg, recv_header, recv_payload, codResult>>
    /\ UNCHANGED outsideCodec

\* The payload strings a caller hands to send(): the command "workspace <name>"
\* of sway_workspaces.py line 188, cut down to one letter and the name, for the
\* names "", "1", e-acute and "a" with the euro sign.
RawPayloads == {<<119>>, <<119, 49>>, <<119, 233>>, <<119, 97, 8364>>}

(***************************************************************************)
(* One event_worker (lines 229-270) with the frames of its socket arriving *)
(* in two chunks, the header and the payload, and the read timeout of line *)
(* 250 firing whenever a recv has had nothing to read for a period.        *)
(***************************************************************************)
\* The names of the members of SwayEvent, as character codes.
EventNameChars ==
    [ WORKSPACE        |-> <<87, 79, 82, 75, 83, 80, 65, 67, 69>>,
      MODE             |-> <<77, 79, 68, 69>>,
      WINDOW           |-> <<87, 73, 78, 68, 79, 87>>,
      BARCONFIG_UPDATE |-> <<66, 65, 82, 67, 79, 78, 70, 73, 71, 95, 85, 80, 68, 65, 84, 69>>,
      BINDING          |-> <<66, 73, 78, 68, 73, 78, 71>>,
      SHUTDOWN         |-> <<83, 72, 85, 84, 68, 79, 87, 78>>,
      TICK             |-> <<84, 73, 67, 75>>,
      BAR_STATE_UPDATE |-> <<66, 65, 82, 95, 83, 84, 65, 84, 69, 95, 85, 80, 68, 65, 84, 69>>,
      INPUT            |-> <<73, 78, 80, 85, 84>> ]

\* A __str__ that returns the member's name as it is.
str_upper_kept(chars) == chars

\* str.lower() on the ASCII letters.
str_lower(chars) ==
    [i \in 1..Len(chars) |->
        IF chars[i] >= 65 /\ chars[i] <= 90 THEN chars[i] + 32 ELSE chars[i]]

\* SwayEvent.__str__ (lines 54-60): self.name.lower().
SwayEvent_str(e) == str_lower(EventNameChars[e])

\* Lines 252-253: the payload of the SUBSCRIBE frame for a list of events.
subscribe_payload(events) ==
    json_dumps(JArr([i \in 1..Len(events) |-> JStr(SwayEvent_str(events[i]))]))

\* The lists of events a caller subscribes to: each member alone (the list of
\* sway_workspaces.py line 95 among them), the empty list, and lists of two.
EventLists ==
    { <<e>> : e \in DOMAIN SwayEvent }
        \cup { <<>>, <<"MODE", "WORKSPACE">>,
               <<"BARCONFIG_UPDATE", "BAR_STATE_UPDATE">> }

StreamIdle ==
    /\ stEvents = <<>>
    /\ stPc = "idle"
    /\ stErr = "none"
    /\ stStop = FALSE
    /\ stSent = <<>>
    /\ stSock = <<>>
    /\ stWritten = <<>>
    /\ stPayloadDue = FALSE
    /\ stRead = "header"
    /\ stCur = 0
    /\ stFramesRead = <<>>
    /\ stDelivered = <<>>
    /\ stLost = {}

\* The thread started by subscribe (line 140) for a list of events.
StreamInit ==
    /\ stEvents \in EventLists
    /\ stPc = "connect"
    /\ stErr = "none"
    /\ stStop = FALSE
    /\ stSent = <<>>
    /\ stSock = <<>>
    /\ stWritten = <<>>
    /\ stPayloadDue = FALSE
    /\ stRead = "header"
    /\ stCur = 0
    /\ stFramesRead = <<>>
    /\ stDelivered = <<>>
    /\ stLost = {}

\* Lines 245-253: connect, settimeout, and the SUBSCRIBE frame written to
\* sub_sock.
st_connect ==
    /\ stPc = "connect"
    /\ IF ConnectOk(get_sway_socket_path(environ))
       THEN /\ stPc' = "handshake"
            /\ stSent' = Append(stSent, [msg |-> "SUBSCRIBE",
                                         payload |-> subscribe_payload(stEvents)])
            /\ stErr' = stErr
       ELSE /\ stPc' = "failed"
            /\ stErr' = "OSError"
            /\ stSent' = stSent
    /\ UNCHANGED <<stEvents, stStop, stSock, stWritten, stPayloadDue, stRead,
                   stCur, stFramesRead, stDelivered, stLost>>
    /\ UNCHANGED outsideStream

\* Lines 254-257 with the compositor's answer {"success": true}: the worker
\* goes on to the loop of line 259.
st_handshake ==
    /\ stPc = "handshake"
    /\ stPc' = IF SubscribeOutcome([code |-> SwayMessage.SUBSCRIBE,
                                    payload |-> "success_true"]) = "none"
               THEN "loop" ELSE "failed"
    /\ UNCHANGED <<stEvents, stErr, stStop, stSent, stSock, stWritten,
                   stPayloadDue, stRead, stCur, stFramesRead, stDelivered,
                   stLost>>
    /\ UNCHANGED outsideStream

\* The compositor writes the header of a frame on the event connection.
comp_write_header(f) ==
    /\ stPc = "loop"
    /\ ~stPayloadDue
    /\ Len(stWritten) < MaxFrames
    /\ f \in EventFrames
    /\ stWritten' = Append(stWritten, f)
    /\ stSock' = Append(stSock, [id |-> Len(stWritten) + 1, part |-> "header"])
    /\ stPayloadDue' = TRUE
    /\ UNCHANGED <<stEvents, stPc, stErr, stStop, stSent, stRead, stCur,
                   stFramesRead, stDelivered, stLost>>
    /\ UNCHANGED outsideStream

\* The compositor writes the payload of the frame whose header it has written.
comp_write_payload ==
    /\ stPayloadDue
    /\ stSock' = Append(stSock, [id |-> Len(stWritten), part |-> "payload"])
    /\ stPayloadDue' = FALSE
    /\ UNCHANGED <<stEvents, stPc, stErr, stStop, stSent, stWritten, stRead,
                   stCur, stFramesRead, stDelivered, stLost>>
    /\ UNCHANGED outsideStream

\* An event loop without the isinstance test of line 269.
event_dispatch_every_kind(frame) == DispatchEveryKind(frame, "SwayEvent")

\* Lines 269-270 after recv_sway_msg has received a frame: the exception that
\* ends the thread, or whether event_handler is called.
event_dispatch(frame) == Dispatch(frame, "SwayEvent")

\* Line 261: a recv of recv_sway_msg returns the chunk that waits on sub_sock.
\* The header loop (lines 307-309) takes the first 14 bytes there are, whatever
\* they are: bytes from the middle of a frame are taken for a header, whose
\* length field, made of the bytes of a JSON text, is above 500 million, so the
\* payload loop then takes everything that arrives.
st_recv ==
    /\ stPc = "loop"
    /\ stSock # <<>>
    /\ stSock' = Tail(stSock)
    /\ LET chunk == Head(stSock)
           d == event_dispatch(stWritten[chunk.id])
       IN  IF stRead = "header" /\ chunk.part = "header"
           THEN /\ stRead' = "payload"
                /\ stCur' = chunk.id
                /\ UNCHANGED <<stPc, stErr, stFramesRead, stDelivered, stLost>>
           ELSE IF stRead = "payload" /\ chunk.part = "payload"
           THEN /\ stRead' = "header"
                /\ stCur' = 0
                /\ stFramesRead' = Append(stFramesRead, chunk.id)
                /\ stErr' = d.err
                /\ stPc' = IF d.err = "none" THEN "loop" ELSE "failed"
                /\ stDelivered' = IF d.call THEN Append(stDelivered, chunk.id)
                                  ELSE stDelivered
                /\ stLost' = stLost
           ELSE /\ stRead' = "garbage"
                /\ stCur' = 0
                /\ stLost' = stLost \cup {chunk.id}
                /\ UNCHANGED <<stPc, stErr, stFramesRead, stDelivered>>
    /\ UNCHANGED <<stEvents, stStop, stSent, stWritten, stPayloadDue>>
    /\ UNCHANGED outsideStream

\* Lines 262-267: a recv of recv_sway_msg has had nothing to read for a period
\* and raises socket.timeout.  recv_header and recv_payload are locals of the
\* call that is left: the bytes they hold are gone, and the next call starts
\* a header at whatever comes next on the socket.
st_timeout ==
    /\ stPc = "loop"
    /\ stSock = <<>>
    /\ stPc' = IF stStop THEN "exited" ELSE "loop"
    /\ stLost' = IF stRead = "payload" THEN stLost \cup {stCur} ELSE stLost
    /\ stRead' = "header"
    /\ stCur' = 0
    /\ UNCHANGED <<stEvents, stErr, stStop, stSent, stSock, stWritten,
                   stPayloadDue, stFramesRead, stDelivered>>
    /\ UNCHANGED outsideStream

\* unsubscribe (lines 144-146) sets the worker's stop event.
st_unsubscribe ==
    /\ stPc \in {"handshake", "loop"}
    /\ ~stStop
    /\ stStop' = TRUE
    /\ UNCHANGED <<stEvents, stPc, stErr, stSent, stSock, stWritten,
                   stPayloadDue, stRead, stCur, stFramesRead, stDelivered,
                   stLost>>
    /\ UNCHANGED outsideStream

(***************************************************************************)
(* plugins/sway_workspaces.py: the SwayWorkspaces widgets of two bars      *)
(* (bar.py lines 94-101 make one per bar), each with its own SwayClient,   *)
(* and the GLib main loop that runs the callbacks their handlers post.     *)
(***************************************************************************)
Instances == {"A", "B"}

\* The output of each widget's bar, and the two values of its configuration.
BarOutput == [A |-> "O1", B |-> "O2"]
AllOutputs == [A |-> FALSE, B |-> FALSE]
PersistentWorkspaces ==
    [ A |-> << [name |-> "a", outputs |-> ""] >>,
      B |-> << [name |-> "1", outputs |-> "O2"] >> ]

\* name.get / current.get returning None.
NoName == "None"

\* The threads: the main loop, and the two workers of each widget's client.
MainThread == [inst |-> "none", role |-> "main"]
WorkerThread(x, role) == [inst |-> x, role |-> role]

\* A decorator that calls fn at once, on the thread of the caller.
call_in_caller(caller) == caller

\* util.py glib_call_in_main (lines 19-30): the wrapper hands inner to
\* GLib.idle_add, which runs it on the thread of the main loop.
glib_call_in_main(caller) == MainThread

\* _validate_outputs (lines 191-197) for the values met here: nothing, or the
\* name of one output.
validate_outputs(outputs) == IF outputs = "" THEN <<>> ELSE <<outputs>>

\* _in_bar_output (lines 199-200).
in_bar_output(x, outputs) ==
    \/ AllOutputs[x]
    \/ \E k \in 1..Len(outputs) : outputs[k] = BarOutput[x]
    \/ outputs = <<>>

\* int(name) for the names that are numbers.
NameInt == ("1" :> 1) @@ ("2" :> 2)

\* name_is_number (lines 203-208).
name_is_number(name) == name \in DOMAIN NameInt

\* list.sort(key=...) of line 221: a stable sort by int(name).
RECURSIVE sort_numbered(_, _)
sort_numbered(obj, list) ==
    IF list = <<>> THEN <<>>
    ELSE LET n == Len(list)
             x == list[n]
             rest == sort_numbered(obj, SubSeq(list, 1, n - 1))
             le == SelectSeq(rest, LAMBDA i :
                       NameInt[obj[i].name] <= NameInt[obj[x].name])
             gt == SelectSeq(rest, LAMBDA i :
                       NameInt[obj[i].name] > NameInt[obj[x].name])
         IN  le \o <<x>> \o gt

\* sort_workspaces (lines 211-222).
sort_workspaces(obj, list) ==
    sort_numbered(obj, SelectSeq(list, LAMBDA i : name_is_number(obj[i].name)))
        \o SelectSeq(list, LAMBDA i : ~name_is_number(obj[i].name))

\* The list self._workspaces names in widget x: its own attribute once line
\* 170 has made one, the list of the class (line 79) until then.
Workspaces(S, x) == IF S.own[x].has THEN S.own[x].list ELSE S.cls

\* An _add_workspace without the test of lines 157-159.
name_never_in_list(obj, list, name) == FALSE

\* Lines 157-159: a workspace of that name is in the list.
name_in_list(obj, list, name) ==
    \E i \in 1..Len(list) : obj[list[i]].name = name

\* list.index(x), counted from 0.
index(list, x) == (CHOOSE i \in 1..Len(list) : list[i] = x) - 1

\* Gtk.Box.reorder_child: the child is moved to a position, the last one when
\* the position is beyond the children.
reorder_child(box, child, position) ==
    LET rest == SelectSeq(box, LAMBDA c : c # child)
        at == IF position > Len(rest) THEN Len(rest) ELSE position
    IN  SubSeq(rest, 1, at) \o <<child>> \o SubSeq(rest, at + 1, Len(rest))

\* _add_workspace (lines 150-174).  Line 169 appends to the list that
\* self._workspaces names, the list of the class when the widget has no
\* attribute yet; line 170 assigns the attribute a new, sorted list.
add_workspace(S, x, name, persistent) ==
    LET list == Workspaces(S, x)
        new_workspace == Len(S.obj) + 1
        obj == Append(S.obj, [name |-> name, owner |-> x,
                              persistent |-> persistent])
        appended == Append(list, new_workspace)
        sorted == sort_workspaces(obj, appended)
        position == index(sorted, new_workspace)
    IN  IF name_in_list(S.obj, list, name) THEN S
        ELSE [ obj |-> obj,
               cls |-> IF S.own[x].has THEN S.cls ELSE appended,
               own |-> [S.own EXCEPT ![x] = [has |-> TRUE, list |-> sorted]],
               box |-> [S.box EXCEPT ![x] =
                           reorder_child(Append(@, new_workspace),
                                         new_workspace, position)] ]

\* del list[i].
del(list, i) == SubSeq(list, 1, i - 1) \o SubSeq(list, i + 1, Len(list))

\* A _remove_workspace without the test of lines 180-181.
remove_workspace_persistent_too(S, x, name) ==
    LET list == Workspaces(S, x)
        found == {i \in 1..Len(list) : S.obj[list[i]].name = name}
        i == CHOOSE k \in found : \A m \in found : k <= m
    IN  IF found = {} THEN S
        ELSE [ S EXCEPT
                 !.box[x] = SelectSeq(@, LAMBDA c : c # list[i]),
                 !.cls = IF S.own[x].has THEN @ ELSE del(list, i),
                 !.own[x].list = IF S.own[x].has THEN del(list, i) ELSE @ ]

\* _remove_workspace (lines 176-185).  Gtk.Box.remove of a button that is not
\* a child of the box changes nothing.
remove_workspace(S, x, name) ==
    LET list == Workspaces(S, x)
        found == {i \in 1..Len(list) : S.obj[list[i]].name = name}
        i == CHOOSE k \in found : \A m \in found : k <= m
    IN  IF found = {} THEN S
        ELSE IF S.obj[list[i]].persistent THEN S
        ELSE [ S EXCEPT
                 !.box[x] = SelectSeq(@, LAMBDA c : c # list[i]),
                 !.cls = IF S.own[x].has THEN @ ELSE del(list, i),
                 !.own[x].list = IF S.own[x].has THEN del(list, i) ELSE @ ]

\* Lines 108-117: the workspaces of the response, in order.
RECURSIVE add_listed(_, _, _)
add_listed(S, x, items) ==
    IF items = <<>> THEN S
    ELSE LET workspace == Head(items)
             outputs == validate_outputs(workspace.output)
         IN  add_listed(IF in_bar_output(x, outputs)
                        THEN add_workspace(S, x, workspace.name, FALSE)
                        ELSE S,
                        x, Tail(items))

\* Lines 119-126: the persistent workspaces of the configuration, in order.
RECURSIVE add_persistent(_, _, _)
add_persistent(S, x, items) ==
    IF items = <<>> THEN S
    ELSE LET name == Head(items).name
             outputs == validate_outputs(Head(items).outputs)
             list == Workspaces(S, x)
             found == {i \in 1..Len(list) : S.obj[list[i]].name = name}
             existing == list[CHOOSE k \in found : \A m \in found : k <= m]
         IN  add_persistent(
                 IF ~in_bar_output(x, outputs) THEN S
                 ELSE IF found # {}
                 THEN [S EXCEPT !.obj[existing].persistent = TRUE]
                 ELSE add_workspace(S, x, name, TRUE),
                 x, Tail(items))

\* The body of _init_workspaces (lines 104-126).
init_workspaces(S, x, payload) ==
    IF ~payload.ok THEN S
    ELSE add_persistent(add_listed(S, x, payload.items), x,
                        PersistentWorkspaces[x])

\* The body of _handle_sway_event (lines 134-148).
handle_sway_event(S, x, payload) ==
    IF ~payload.ok THEN S
    ELSE IF payload.change = "init" /\ payload.name # NoName
    THEN add_workspace(S, x, payload.name, FALSE)
    ELSE IF payload.change = "empty" /\ payload.name # NoName
    THEN remove_workspace(S, x, payload.name)
    ELSE S

\* The payloads of a GET_WORKSPACES response: not a list, no workspace, two
\* workspaces on the first bar's output, one workspace on each output.
InitPayloads ==
    { [ok |-> FALSE, change |-> "", name |-> NoName, items |-> <<>>],
      [ok |-> TRUE, change |-> "", name |-> NoName, items |-> <<>>],
      [ok |-> TRUE, change |-> "", name |-> NoName,
       items |-> << [name |-> "2", output |-> "O1"],
                    [name |-> "1", output |-> "O1"] >>],
      [ok |-> TRUE, change |-> "", name |-> NoName,
       items |-> << [name |-> "1", output |-> "O1"],
                    [name |-> "2", output |-> "O2"] >>] }

\* The payloads of a WORKSPACE event: not an object, "init" and "empty" with
\* a current name, "init" without one, and another change.
EventPayloads ==
    { [ok |-> FALSE, change |-> "", name |-> NoName, items |-> <<>>],
      [ok |-> TRUE, change |-> "init", name |-> "1", items |-> <<>>],
      [ok |-> TRUE, change |-> "init", name |-> "2", items |-> <<>>],
      [ok |-> TRUE, change |-> "init", name |-> NoName, items |-> <<>>],
      [ok |-> TRUE, change |-> "empty", name |-> "1", items |-> <<>>],
      [ok |-> TRUE, change |-> "empty", name |-> "a", items |-> <<>>],
      [ok |-> TRUE, change |-> "focus", name |-> "1", items |-> <<>>] }

\* The names the children of widget x's button box show.
Display(box, obj, x) == {obj[box[x][k]].name : k \in 1..Len(box[x])}

\* The names a callback of widget x with this payload asks for, from the names
\* shown before it and the names the widget has made persistent.
Reconciled(before, marked, x, cb, payload) ==
    IF ~payload.ok THEN before
    ELSE IF cb = "init"
    THEN before
           \cup {payload.items[k].name : k \in
                    {j \in 1..Len(payload.items) :
                        in_bar_output(x, validate_outputs(payload.items[j].output))}}
           \cup {PersistentWorkspaces[x][k].name : k \in
                    {j \in 1..Len(PersistentWorkspaces[x]) :
                        in_bar_output(x, validate_outputs(
                            PersistentWorkspaces[x][j].outputs))}}
    ELSE IF payload.change = "init" /\ payload.name # NoName
    THEN before \cup {payload.name}
    ELSE IF payload.change = "empty" /\ payload.name # NoName
            /\ payload.name \notin marked
    THEN before \ {payload.name}
    ELSE before

\* The state after the two widgets are constructed (lines 79, 81-97).
WidgetInit ==
    /\ wsObj = <<>>
    /\ wsClass = <<>>
    /\ wsOwn = [x \in Instances |-> [has |-> FALSE, list |-> <<>>]]
    /\ wsBox = [x \in Instances |-> <<>>]
    /\ wsQueue = <<>>
    /\ wsRunning = {}
    /\ wsPosted = 0
    /\ wsInitSent = [x \in Instances |-> FALSE]
    /\ wsThreads = {}
    /\ wsLast = [inst |-> "A", cb |-> "none",
                 payload |-> [ok |-> FALSE, change |-> "", name |-> NoName,
                              items |-> <<>>],
                 before |-> {}, marked |-> {}]
    /\ wsAlone = [x \in Instances |-> {}]
    /\ wsMarked = [x \in Instances |-> {}]

\* The consumer thread of widget x's client calls the response handler given
\* at lines 89-93 (sway.py line 226): the decorated _init_workspaces.
wd_response(x, payload) ==
    /\ wsPosted < MaxCallbacks
    /\ ~wsInitSent[x]
    /\ payload \in InitPayloads
    /\ wsInitSent' = [wsInitSent EXCEPT ![x] = TRUE]
    /\ wsPosted' = wsPosted + 1
    /\ wsQueue' = Append(wsQueue,
                         [inst |-> x, cb |-> "init", payload |-> payload,
                          thread |-> glib_call_in_main(
                                         WorkerThread(x, "consumer"))])
    /\ UNCHANGED <<wsObj, wsClass, wsOwn, wsBox, wsRunning, wsThreads, wsLast,
                   wsAlone, wsMarked>>
    /\ UNCHANGED outsideWidget

\* The event thread of widget x's client calls the event handler given at
\* lines 94-97 (sway.py line 270): the decorated _handle_sway_event.
wd_event(x, payload) ==
    /\ wsPosted < MaxCallbacks
    /\ payload \in EventPayloads
    /\ wsPosted' = wsPosted + 1
    /\ wsQueue' = Append(wsQueue,
                         [inst |-> x, cb |-> "event", payload |-> payload,
                          thread |-> glib_call_in_main(
                                         WorkerThread(x, "event"))])
    /\ UNCHANGED <<wsObj, wsClass, wsOwn, wsBox, wsRunning, wsInitSent,
                   wsThreads, wsLast, wsAlone, wsMarked>>
    /\ UNCHANGED outsideWidget

\* The first waiting callback begins on its thread, which runs one callback
\* at a time.
wd_begin ==
    /\ wsQueue # <<>>
    /\ \A r \in wsRunning : r.thread # Head(wsQueue).thread
    /\ wsRunning' = wsRunning \cup {Head(wsQueue)}
    /\ wsQueue' = Tail(wsQueue)
    /\ UNCHANGED <<wsObj, wsClass, wsOwn, wsBox, wsPosted, wsInitSent,
                   wsThreads, wsLast, wsAlone, wsMarked>>
    /\ UNCHANGED outsideWidget

\* A callback that has begun runs its body, _init_workspaces or
\* _handle_sway_event, and ends.
wd_end ==
    \E e \in wsRunning :
        /\ LET S == [obj |-> wsObj, cls |-> wsClass, own |-> wsOwn, box |-> wsBox]
               T == IF e.cb = "init" THEN init_workspaces(S, e.inst, e.payload)
                    ELSE handle_sway_event(S, e.inst, e.payload)
           IN  /\ wsObj' = T.obj
               /\ wsClass' = T.cls
               /\ wsOwn' = T.own
               /\ wsBox' = T.box
        /\ wsRunning' = wsRunning \ {e}
        /\ wsThreads' = wsThreads \cup {e.thread}
        /\ wsLast' = [inst |-> e.inst, cb |-> e.cb, payload |-> e.payload,
                      before |-> Display(wsBox, wsObj, e.inst),
                      marked |-> wsMarked[e.inst]]
        /\ wsAlone' = [wsAlone EXCEPT ![e.inst] =
                          Reconciled(@, wsMarked[e.inst], e.inst, e.cb, e.payload)]
        /\ wsMarked' = [wsMarked EXCEPT ![e.inst] =
                          IF e.cb = "init" /\ e.payload.ok
                          THEN @ \cup {PersistentWorkspaces[e.inst][k].name : k \in
                                  {j \in 1..Len(PersistentWorkspaces[e.inst]) :
                                      in_bar_output(e.inst, validate_outputs(
                                          PersistentWorkspaces[e.inst][j].outputs))}}
                          ELSE @]
        /\ UNCHANGED <<wsQueue, wsPosted, wsInitSent>>
        /\ UNCHANGED outsideWidget

(***************************************************************************)
(* The first widget between its start (sway_workspaces.py lines 87-97) and *)
(* the compositor: the GET_WORKSPACES request goes over the command        *)
(* connection (sway.py lines 193-226), the SUBSCRIBE over the event        *)
(* connection (lines 229-270), and the compositor makes and empties        *)
(* workspaces meanwhile.                                                   *)
(***************************************************************************)
\* The workspaces of the compositor, all on the output of the first bar.
CompositorWorkspaces ==
    << [name |-> "1", output |-> "O1"], [name |-> "2", output |-> "O1"] >>

\* The payload of a GET_WORKSPACES reply for a set of workspace names.
workspaces_reply(names) ==
    [ok |-> TRUE, change |-> "", name |-> NoName,
     items |-> SelectSeq(CompositorWorkspaces, LAMBDA w : w.name \in names)]

\* The payload of a WORKSPACE event.
workspace_event(change, name) ==
    [ok |-> TRUE, change |-> change, name |-> name, items |-> <<>>]

\* One workspace exists when the bar starts.
SyncInit ==
    /\ syComp = {"1"}
    /\ sySnap = [taken |-> FALSE, names |-> {}]
    /\ sySubscribed = FALSE

\* The compositor answers the GET_WORKSPACES of lines 89-93 with the
\* workspaces it has at that moment.
sy_get_workspaces ==
    /\ ~sySnap.taken
    /\ sySnap' = [taken |-> TRUE, names |-> syComp]
    /\ UNCHANGED <<syComp, sySubscribed, widgetVars>>
    /\ UNCHANGED outsideSync

\* The consumer thread reads the reply and calls the response handler (sway.py
\* lines 222-226), the decorated _init_workspaces.
sy_response ==
    /\ sySnap.taken
    /\ ~wsInitSent["A"]
    /\ wsPosted < MaxCallbacks
    /\ wsInitSent' = [wsInitSent EXCEPT !["A"] = TRUE]
    /\ wsPosted' = wsPosted + 1
    /\ wsQueue' = Append(wsQueue,
                         [inst |-> "A", cb |-> "init",
                          payload |-> workspaces_reply(sySnap.names),
                          thread |-> glib_call_in_main(
                                         WorkerThread("A", "consumer"))])
    /\ UNCHANGED <<wsObj, wsClass, wsOwn, wsBox, wsRunning, wsThreads, wsLast,
                   wsAlone, wsMarked, syncVars>>
    /\ UNCHANGED outsideSync

\* The compositor takes the SUBSCRIBE frame the event thread wrote (sway.py
\* line 253): events are sent to the widget from now on.
sy_subscribe ==
    /\ ~sySubscribed
    /\ sySubscribed' = TRUE
    /\ UNCHANGED <<syComp, sySnap, widgetVars>>
    /\ UNCHANGED outsideSync

\* The compositor makes (change "init") or empties (change "empty") a
\* workspace.  With the subscription taken it sends the event, and the event
\* thread calls the decorated _handle_sway_event (sway.py lines 269-270).
sy_change(change, name) ==
    /\ change \in {"init", "empty"}
    /\ (change = "init") = (name \notin syComp)
    /\ syComp' = IF change = "init" THEN syComp \cup {name}
                 ELSE syComp \ {name}
    /\ IF sySubscribed
       THEN /\ wsPosted < MaxCallbacks
            /\ wsPosted' = wsPosted + 1
            /\ wsQueue' = Append(wsQueue,
                                 [inst |-> "A", cb |-> "event",
                                  payload |-> workspace_event(change, name),
                                  thread |-> glib_call_in_main(
                                                 WorkerThread("A", "event"))])
       ELSE UNCHANGED <<wsPosted, wsQueue>>
    /\ UNCHANGED <<wsObj, wsClass, wsOwn, wsBox, wsRunning, wsInitSent,
                   wsThreads, wsLast, wsAlone, wsMarked, sySnap, sySubscribed>>
    /\ UNCHANGED outsideSync

(***************************************************************************)
(* plugins/tray/sni.py: the StatusNotifierWatcher, its method              *)
(* register_status_notifier_item and its handling of NameOwnerChanged.     *)
(* Strings are sequences of character codes.                               *)
(***************************************************************************)
\* Two unique bus names, ":1.5" and ":1.50", and a well-known one, "o.a".
Unique5 == <<58, 49, 46, 53>>
Unique50 == <<58, 49, 46, 53, 48>>
WellKnown == <<111, 46, 97>>

\* An object path, "/i".
ItemPath == <<47, 105>>

\* Line 163: "/StatusNotifierItem".
DefaultItemPath ==
    <<47, 83, 116, 97, 116, 117, 115, 78, 111, 116, 105, 102, 105, 101, 114, 73, 116, 101, 109>>

\* The character "/".
Slash == 47

\* The senders of method calls, the arguments of
\* register_status_notifier_item, and the names whose owner changes.
TraySenders == {Unique5, Unique50}
TrayArguments == {WellKnown, ItemPath}
TrayServices == {Unique5, Unique50, WellKnown}

\* x in list.
In(x, list) == \E k \in 1..Len(list) : list[k] = x

\* str.startswith(prefix).
startswith(str, prefix) ==
    /\ Len(prefix) <= Len(str)
    /\ SubSeq(str, 1, Len(prefix)) = prefix

\* The state after the class is made (lines 131-132) and the watcher
\* constructed.
TrayInit ==
    /\ trItems = <<>>
    /\ trHosts = <<>>
    /\ trSignals = <<>>
    /\ trCalls = 0
    /\ trLast = [lost |-> FALSE, service |-> <<>>, before |-> <<>>,
                 after |-> <<>>]

\* register_status_notifier_host (lines 141-149).
register_status_notifier_host(host) ==
    /\ trCalls < MaxTrayCalls
    /\ trCalls' = trCalls + 1
    /\ IF In(host, trHosts)
       THEN UNCHANGED <<trHosts, trSignals>>
       ELSE /\ trHosts' = Append(trHosts, host)
            /\ trSignals' = Append(trSignals,
                   [signal |-> "status_notifier_host_registered",
                    value |-> host])
    /\ UNCHANGED <<trItems, trLast>>
    /\ UNCHANGED outsideTray

\* register_status_notifier_item (lines 151-173), called by sender.
register_status_notifier_item(sender, service_or_path) ==
    /\ trCalls < MaxTrayCalls
    /\ trCalls' = trCalls + 1
    /\ LET appended == Append(trItems, service_or_path)
           service == IF service_or_path[1] = Slash THEN sender
                      ELSE service_or_path
           path == IF service_or_path[1] = Slash THEN service_or_path
                   ELSE DefaultItemPath
           item == service \o path
       IN  IF In(item, appended)
           THEN /\ trItems' = appended
                /\ trSignals' = trSignals
           ELSE /\ trItems' = Append(appended, item)
                /\ trSignals' = Append(trSignals,
                       [signal |-> "status_notifier_item_registered",
                        value |-> item])
    /\ UNCHANGED <<trHosts, trLast>>
    /\ UNCHANGED outsideTray

\* One turn of the loop of watch (lines 199-218): the bus says that the owner
\* of the name service is now new_owner.
watch(service, new_owner) ==
    /\ trCalls < MaxTrayCalls
    /\ trCalls' = trCalls + 1
    /\ IF new_owner # <<>>
       THEN UNCHANGED <<trItems, trHosts, trSignals, trLast>>
       ELSE LET removed_items ==
                    SelectSeq(trItems, LAMBDA i : startswith(i, service))
                kept == SelectSeq(trItems, LAMBDA i : ~startswith(i, service))
            IN  /\ trItems' = kept
                /\ trHosts' = IF In(service, trHosts)
                              THEN LET h == CHOOSE k \in 1..Len(trHosts) :
                                               trHosts[k] = service
                                   IN  SubSeq(trHosts, 1, h - 1)
                                         \o SubSeq(trHosts, h + 1, Len(trHosts))
                              ELSE trHosts
                /\ trSignals' = trSignals \o
                       [k \in 1..Len(removed_items) |->
                           [signal |-> "status_notifier_item_unregistered",
                            value |-> removed_items[k]]]
                /\ trLast' = [lost |-> TRUE, service |-> service,
                              before |-> trItems, after |-> kept]
    /\ UNCHANGED outsideTray

(***************************************************************************)
(* The specifications.                                                     *)
(***************************************************************************)
vars == <<environ, clientVars, cmdVars, evVars, codecVars, streamVars,
          widgetVars, syncVars, trayVars>>

Init ==
    /\ environ \in Environments
    /\ ClientInit
    /\ CmdInit
    /\ EvInit
    /\ StreamIdle
    /\ WidgetInit
    /\ SyncInit
    /\ TrayInit
    /\ CodecIdle

\* The calls a caller thread may make on the client.
Facade ==
    \/ \E r \in Senders : send(r)
    \/ subscribe
    \/ unsubscribe
    \/ shutdown

CommandChannel ==
    \/ cmd_connect
    \/ cmd_get
    \/ cmd_get_timeout
    \/ cmd_recv
    \/ cmd_recv_eof
    \/ \E r \in UNION {Responses(q) : q \in Senders} : comp_respond(r)
    \/ comp_close

EventChannel ==
    \/ \E s \in Subs : ev_connect(s)
    \/ \E s \in Subs, p \in SubscribeReplies : comp_subscribe_reply(s, p)
    \/ \E s \in Subs : ev_handshake(s)
    \/ \E s \in Subs : ev_handshake_timeout(s)
    \/ \E s \in Subs, f \in EventFrames : comp_event(s, f)
    \/ \E s \in Subs : ev_recv(s)
    \/ \E s \in Subs : ev_timeout(s)
    \/ Tick

\* The facade and the command channel; the event workers are not scheduled.
Next == Facade \/ CommandChannel

Spec == Init /\ [][Next]_vars

\* The facade without send, and the event channel; the command worker is not
\* scheduled.
NextEvent ==
    \/ subscribe
    \/ unsubscribe
    \/ shutdown
    \/ EventChannel

SpecEvent == Init /\ [][NextEvent]_vars

\* One frame through the codec, for every message kind, payload and byte
\* order; the client is left as constructed.
InitCodec ==
    /\ environ = [SWAYSOCK |-> <<CompositorPath>>, stdout |-> <<>>]
    /\ ClientInit
    /\ CmdInit
    /\ EvInit
    /\ StreamIdle
    /\ WidgetInit
    /\ SyncInit
    /\ TrayInit
    /\ CodecInit

NextCodec ==
    \/ cod_send
    \/ \E whole \in BOOLEAN : cod_recv_header(whole)
    \/ \E whole \in BOOLEAN : cod_recv_payload(whole)
    \/ cod_return

SpecCodec == InitCodec /\ [][NextCodec]_vars

\* One frame written by the peer and read by recv_sway_msg, for every type
\* code, payload and byte order.
InitDecode ==
    /\ environ = [SWAYSOCK |-> <<CompositorPath>>, stdout |-> <<>>]
    /\ ClientInit
    /\ CmdInit
    /\ EvInit
    /\ StreamIdle
    /\ WidgetInit
    /\ SyncInit
    /\ TrayInit
    /\ byteorder \in ByteOrders
    /\ peerCode = U32(0)
    /\ codMsg = "RUN_COMMAND"
    /\ codValue = JNull
    /\ codPayload = <<>>
    /\ wire = <<>>
    /\ recv_header = <<>>
    /\ recv_payload = <<>>
    /\ codPc = "peer"
    /\ codResult = [err |-> "none", type |-> [cls |-> "", name |-> ""],
                    value |-> JNull]

NextDecode ==
    \/ \E code \in PeerCodes, p \in PeerPayloads : peer_send(code, p)
    \/ \E whole \in BOOLEAN : cod_recv_header(whole)
    \/ \E whole \in BOOLEAN : cod_recv_payload(whole)
    \/ cod_return

SpecDecode == InitDecode /\ [][NextDecode]_vars

\* One frame through the codec for the payload strings of the callers, which
\* are not made by json.dumps.
InitRaw ==
    /\ environ = [SWAYSOCK |-> <<CompositorPath>>, stdout |-> <<>>]
    /\ ClientInit
    /\ CmdInit
    /\ EvInit
    /\ StreamIdle
    /\ WidgetInit
    /\ SyncInit
    /\ TrayInit
    /\ byteorder \in ByteOrders
    /\ peerCode = U32(0)
    /\ codMsg \in DOMAIN SwayMessage
    /\ codValue = JNull
    /\ codPayload \in RawPayloads
    /\ wire = <<>>
    /\ recv_header = <<>>
    /\ recv_payload = <<>>
    /\ codPc = "send"
    /\ codResult = [err |-> "none", type |-> [cls |-> "", name |-> ""],
                    value |-> JNull]

SpecRaw == InitRaw /\ [][NextCodec]_vars

\* One event worker from the start of its thread, for every list of events a
\* caller subscribes to, with the compositor writing frames in two chunks.
InitStream ==
    /\ environ = [SWAYSOCK |-> <<CompositorPath>>, stdout |-> <<>>]
    /\ ClientInit
    /\ CmdInit
    /\ EvInit
    /\ CodecIdle
    /\ StreamInit
    /\ WidgetInit
    /\ SyncInit
    /\ TrayInit

NextStream ==
    \/ st_connect
    \/ st_handshake
    \/ \E f \in EventFrames : comp_write_header(f)
    \/ comp_write_payload
    \/ st_recv
    \/ st_timeout
    \/ st_unsubscribe

SpecStream == InitStream /\ [][NextStream]_vars

\* The two workspace widgets, the handler calls of their clients' workers and
\* the main loop.
InitWidget ==
    /\ environ = [SWAYSOCK |-> <<CompositorPath>>, stdout |-> <<>>]
    /\ ClientInit
    /\ CmdInit
    /\ EvInit
    /\ CodecIdle
    /\ StreamIdle
    /\ WidgetInit
    /\ SyncInit
    /\ TrayInit

NextWidget ==
    \/ \E x \in Instances : \E p \in InitPayloads : wd_response(x, p)
    \/ \E x \in Instances : \E p \in EventPayloads : wd_event(x, p)
    \/ wd_begin
    \/ wd_end

SpecWidget == InitWidget /\ [][NextWidget]_vars

\* The first widget, the compositor it talks to and the main loop.
NextSync ==
    \/ sy_get_workspaces
    \/ sy_response
    \/ sy_subscribe
    \/ \E c \in {"init", "empty"} :
          \E w \in 1..Len(CompositorWorkspaces) :
             sy_change(c, CompositorWorkspaces[w].name)
    \/ wd_begin
    \/ wd_end

SpecSync == InitWidget /\ [][NextSync]_vars

\* The tray's watcher, the items that register and the names that come and go.
NextTray ==
    \/ \E host \in TraySenders : register_status_notifier_host(host)
    \/ \E sender \in TraySenders : \E arg \in TrayArguments :
          register_status_notifier_item(sender, arg)
    \/ \E service \in TrayServices : \E new_owner \in {<<>>, Unique5} :
          watch(service, new_owner)

SpecTray == InitWidget /\ [][NextTray]_vars

(***************************************************************************)
(* Properties of the command channel and of the facade.                    *)
(***************************************************************************)
\* A request's id is its position in the order of the queue.put calls.

\* C1: the frames are written to the command socket in the order in which the
\* requests were enqueued, whichever threads enqueued them, and the response
\* handlers are called in that order too.
C1_FifoEndToEnd ==
    /\ \A i \in 1..Len(written) : written[i] = i
    /\ \A i, j \in 1..Len(handled) : i < j => handled[i].req < handled[j].req

\* Three requests of two caller threads have been written and handled.
C1_Witness ==
    /\ Len(written) = 3
    /\ Len(handled) = 3
    /\ \E i, j \in 1..Len(requests) : requests[i].caller # requests[j].caller

\* C2: at most one request is in flight on the command connection: a frame is
\* written only when the response frames of all the frames written before it
\* have been read completely.
C2_OneInFlight ==
    /\ Len(written) <= respRead + 1
    /\ cmdPc = "get" => Len(written) = respRead

\* The second request is in flight after the first response was read.
C2_Witness == Len(written) = 2 /\ respRead = 1 /\ cmdPc = "recv"

\* C3: once shutdown() has been called, no call of send() enqueues a request
\* and no call of subscribe() starts an event worker.
C3_ClosedClientRefusesCalls ==
    [][closed => (requests' = requests /\ nSubs' = nSubs)]_vars

\* C4: no call of shutdown() raises, whatever the state of the client.
C4_ShutdownNeverRaises == \A r \in raised : r.op # "shutdown"

\* shutdown() has returned normally at least once and never raised.
ShutdownReturned == closed /\ \A r \in raised : r.op # "shutdown"

\* C5: once shutdown() has returned, no request frame is written to the command
\* socket.
C5_NoWriteAfterShutdown == [][ShutdownReturned => written' = written]_vars

\* C9: a failure to resolve the socket path, to connect or to set up the
\* subscription has been raised by a call of the constructor, of send() or of
\* subscribe().
C9_SetupFailuresRaisedByCalls ==
    (\/ cmdErr = "OSError"
     \/ \E s \in Subs : evErr[s] \in {"OSError", SubscribeFailed})
        => \E r \in raised : r.op \in {"__init__", "send", "subscribe"}

\* C13: a response frame whose type code belongs to neither enumeration does
\* not end the command worker.
C13_UnknownResponseKeepsWorker ==
    ~(cmdPc = "failed" /\ cmdErr = UnexpectedType)

\* The exceptions recv_sway_msg raises on a response frame the compositor
\* wrote.
ResponseErrors == {UnexpectedType, "JSONDecodeError"}

\* C15: on a client that was not shut down and whose compositor has answered
\* every frame written to it, no request is left in the queue of a worker that
\* has ended: every request enqueued is written.
C15_NoRequestStranded ==
    (~closed /\ cmdPc = "failed" /\ cmdErr \in ResponseErrors
        /\ compAnswered = Len(written))
        => message_queue = <<>>

\* C16: a command worker whose stop event is set ends at its next poll of the
\* queue, also when requests are waiting in it: it takes no request.
C16_StoppedWorkerEndsAtNextPoll ==
    [][(consumerStopSet /\ cmdPc = "get") => cmdPc' \in {"get", "exited"}]_vars

\* C17: the path get_sway_socket_path has returned to the command worker is
\* never empty.
C17_SocketPathNeverEmpty ==
    cmdPc # "connect" => get_sway_socket_path(environ) # <<>>

\* The command connection has failed and the worker has met the failure: it
\* spins on the closed socket, or its write has raised.
ConnectionLost == cmdPc = "spinning" \/ cmdErr = "BrokenPipeError"

\* C18: once the command connection has failed, a call of send() enqueues
\* nothing.
C18_SendRefusedAfterConnectionLoss ==
    [][ConnectionLost => requests' = requests]_vars

\* The response frame number n on the command connection has a command type
\* code, and a payload that parses as JSON.
CommandResponse(n) == answers[n].code \in CommandCodes
JsonCommandResponse(n) == CommandResponse(n) /\ answers[n].payload = "json"

\* The calls of the handler of request n.
HandlerCalls(n) == {i \in 1..Len(handled) : handled[i].req = n}

\* Every handler call made is the only one for its request, follows the
\* reading of the response frame with the request's number, and has the kind
\* of that frame, which is the request's kind when the compositor answered
\* with it.
HandlerCallsPaired ==
    \A i \in 1..Len(handled) :
        LET n == handled[i].req
        IN  /\ HandlerCalls(n) = {i}
            /\ n <= respRead
            /\ CommandResponse(n)
            /\ SwayMessage[handled[i].res] = answers[n].code
            /\ answers[n].code = SwayMessage[requests[n].msg]
                  => handled[i].res = requests[n].msg

\* C19 as stated: the handler calls are paired, and the handler of request n
\* has been called once the response frame number n, with a command type code,
\* has been read.
C19_HandlerCalledForCommandResponse ==
    /\ HandlerCallsPaired
    /\ \A n \in 1..respRead : CommandResponse(n) => HandlerCalls(n) # {}

\* C19, amended: the handler calls are paired, and the handler of request n has
\* been called once the response frame number n, with a command type code and
\* a payload that parses as JSON, has been read.
C19_HandlerCalledForJsonCommandResponse ==
    /\ HandlerCallsPaired
    /\ \A n \in 1..respRead : JsonCommandResponse(n) => HandlerCalls(n) # {}

\* Three responses were read, the second one with an event type code: the
\* handlers of the first and of the third request were called.
C19_Witness ==
    /\ respRead = 3
    /\ answers[2].code \in EventCodes
    /\ Len(handled) = 2
    /\ handled[2].req = 3

\* The state of the command channel: the queue, the consumer thread and its
\* stop event, the worker and its socket.
commandChannelVars ==
    <<message_queue, consumer_stop, consumer_thread, consumerStopSet, cmdVars>>

\* The state of the event channel: the event threads, their stop events and
\* their sockets.
eventChannelVars == <<event_stop, event_thread, evVars>>

\* C24: a step of the command worker or of its socket changes nothing of the
\* event channel, and a step that changes the event channel without being the
\* first shutdown() (a call of subscribe() or unsubscribe()) changes nothing
\* of the command channel.
C24_ChannelsShareNoState ==
    [][/\ cmdVars' # cmdVars => eventChannelVars' = eventChannelVars
       /\ (eventChannelVars' # eventChannelVars /\ (closed' => closed))
             => commandChannelVars' = commandChannelVars]_vars

\* unsubscribe() has set the stop event of the first subscription of a client
\* that was not shut down, while one request waits in the queue and another
\* one is in flight.
C24_Witness ==
    /\ ~closed
    /\ evStopSet[1]
    /\ message_queue # <<>>
    /\ cmdPc = "recv"
    /\ ~consumerStopSet

\* C29: recv_sway_msg does not go on reading a socket that has reached the
\* end of the stream: the command worker never spins on empty reads.
C29_EndOfStreamEndsRead == cmdPc # "spinning"

(***************************************************************************)
(* Properties of the event channel.                                        *)
(***************************************************************************)
\* C6: a worker whose stop event was set more than two read-timeout periods ago
\* is no longer receiving.  (The third Tick after the stop event was set comes
\* more than two periods after it.)
C6_LoopEndsWithinTwoPeriods ==
    \A s \in Subs : evSinceStop[s] > 2 => ~Receiving(s)

\* C7: at most one event read loop of the client is running.
C7_OneEventLoop == Cardinality({s \in Subs : evPc[s] = "loop"}) <= 1

\* C14: no frame read in the event loop ends the worker: a frame with an
\* unknown type code or with a payload that is not JSON is dropped.
C14_BadFrameKeepsSubscription ==
    \A s \in Subs :
        ~(evLoopEntered[s] /\ evPc[s] = "failed" /\ evErr[s] \in ResponseErrors)

\* The payloads of a SUBSCRIBE response whose "success" is false or absent.
Rejections == {"success_false", "success_absent"}

C10_RoundTrip ==
    codPc = "done" =>
        /\ codResult.err = "none"
        /\ codResult.type = [cls |-> "SwayMessage", name |-> codMsg]
        /\ codResult.value = codValue
        /\ wire = FollowingBytes

\* A frame of the highest command code whose payload is an array of two
\* strings, the first one with a non-ASCII character and a quote, was read.
C10_Witness ==
    /\ codPc = "done"
    /\ codMsg = "GET_SEATS"
    /\ codValue.t = "arr"
    /\ Len(codValue.v) = 2
    /\ codValue.v[1] = JStr(<<233, 34>>)

\* C11: the command codes and the event codes are disjoint, 15 and 9 in
\* number, one code per kind; recv_sway_msg on a frame with an event code
\* returns that SwayEvent and never a SwayMessage, and on a frame with a command
\* code returns that SwayMessage and never a SwayEvent.
C11_ClassificationExact ==
    /\ CommandCodes \cap EventCodes = {}
    /\ Cardinality(CommandCodes) = 15
    /\ Cardinality(DOMAIN SwayMessage) = 15
    /\ Cardinality(EventCodes) = 9
    /\ Cardinality(DOMAIN SwayEvent) = 9
    /\ codPc = "done" =>
          /\ peerCode \in EventCodes =>
                /\ codResult.type.cls = "SwayEvent"
                /\ SwayEvent[codResult.type.name] = peerCode
          /\ peerCode \in CommandCodes =>
                /\ codResult.type.cls = "SwayMessage"
                /\ SwayMessage[codResult.type.name] = peerCode

\* A frame with the highest event code was read and returned as INPUT.
C11_Witness ==
    /\ codPc = "done"
    /\ peerCode = SwayEvent.INPUT
    /\ codResult.err = "none"
    /\ codResult.type = [cls |-> "SwayEvent", name |-> "INPUT"]

\* C12: recv_sway_msg on a frame whose type code is in neither enumeration
\* raises the RuntimeError of line 334, and by then it has taken the header and
\* the declared number of payload bytes from the socket and nothing more: the
\* bytes of the following frame are all still there.
C12_UnknownTypeConsumesFrame ==
    (codPc = "done" /\ peerCode \notin CommandCodes \cup EventCodes) =>
        /\ codResult.err = UnexpectedType
        /\ Len(recv_header) = HEADER_LEN
        /\ recv_payload = utf8_encode(codPayload)
        /\ wire = FollowingBytes

\* A frame with an unknown code that has the top bit set and a payload with a
\* two-byte character was read.
C12_Witness ==
    /\ codPc = "done"
    /\ peerCode = HighBit(1)
    /\ codPayload = <<91, 34, 233, 34, 93>>
    /\ codResult.err = UnexpectedType

\* C20: the length field of the frame send_sway_msg writes is the number of
\* bytes of the UTF-8 encoded payload, so recv_sway_msg takes exactly the
\* payload and leaves the following frame.
C20_LengthFieldIsByteLength ==
    /\ codPc \in {"recv_payload", "done"} =>
          recv_payload_len(recv_header, byteorder)
              = U32(Len(utf8_encode(codPayload)))
    /\ codPc = "done" =>
          /\ recv_payload = utf8_encode(codPayload)
          /\ wire = FollowingBytes

\* C21: recv_sway_msg on a frame with payload length 0 and a known type code
\* takes the 14 bytes of the header and nothing more, and returns.
C21_EmptyPayloadDecodes ==
    (codPc = "done" /\ codPayload = <<>>
        /\ peerCode \in CommandCodes \cup EventCodes) =>
        /\ Len(recv_header) = HEADER_LEN
        /\ recv_payload = <<>>
        /\ wire = FollowingBytes
        /\ codResult.err = "none"

(***************************************************************************)
(* The event worker, chunk by chunk.                                       *)
(***************************************************************************)
\* The frames recv_sway_msg returns to a worker: a known type code and a
\* payload that is JSON.
ReturnedFrame(f) ==
    /\ ClassifyPayloadType(f.code).cls \in {"SwayMessage", "SwayEvent"}
    /\ f.payload = "json"

ToUpper(chars) ==
    [i \in 1..Len(chars) |->
        IF chars[i] >= 97 /\ chars[i] <= 122 THEN chars[i] - 32 ELSE chars[i]]

\* C23: once the worker is past its connect it has written exactly one frame
\* to the event connection, a SUBSCRIBE frame, and nothing has gone to the
\* command connection; the payload parses as a JSON array with one string per
\* requested event, in order, each the member's name in lower case; and the
\* nine names are distinct.
C23_SubscribeFrame ==
    /\ DOMAIN EventNameChars = DOMAIN SwayEvent
    /\ Cardinality(DOMAIN EventNameChars) = 9
    /\ \A e1, e2 \in DOMAIN EventNameChars :
          e1 # e2 => SwayEvent_str(e1) # SwayEvent_str(e2)
    /\ stPc \in {"handshake", "loop", "exited"} =>
          /\ Len(stSent) = 1
          /\ stSent[1].msg = "SUBSCRIBE"
          /\ written = <<>>
          /\ message_queue = <<>>
          /\ LET r == json_loads(utf8_encode(stSent[1].payload))
             IN  /\ r.err = "none"
                 /\ r.v.t = "arr"
                 /\ Len(r.v.v) = Len(stEvents)
                 /\ \A i \in 1..Len(stEvents) :
                       /\ r.v.v[i].t = "str"
                       /\ \A c \in 1..Len(r.v.v[i].v) :
                             ~(r.v.v[i].v[c] >= 65 /\ r.v.v[i].v[c] <= 90)
                       /\ ToUpper(r.v.v[i].v) = EventNameChars[stEvents[i]]

\* The worker subscribed to two events and is in its loop.
C23_Witness ==
    /\ stPc = "loop"
    /\ stEvents = <<"MODE", "WORKSPACE">>
    /\ Len(stSent) = 1

\* The chunks of frame id have all been taken off the socket.
Consumed(id) ==
    /\ \A k \in 1..Len(stSock) : stSock[k].id # id
    /\ ~(stPayloadDue /\ id = Len(stWritten))

\* C28: every event frame the worker has taken off the event connection while
\* it stays subscribed has been passed to the handler, once and in the order
\* of arrival, whatever read timeouts fired on the way.
C28_NoEventFrameLost ==
    /\ \A id \in 1..Len(stWritten) :
          (ReturnedFrame(stWritten[id]) /\ stWritten[id].code \in EventCodes
                /\ Consumed(id) /\ stPc = "loop")
             => \E k \in 1..Len(stDelivered) : stDelivered[k] = id
    /\ \A k1, k2 \in 1..Len(stDelivered) :
          k1 < k2 => stDelivered[k1] < stDelivered[k2]

(***************************************************************************)
(* The workspace widgets.                                                  *)
(***************************************************************************)
\* C25: after a callback of _handle_sway_event has run, the widget shows the
\* names it showed before, with the current name added for "init", with it
\* removed for "empty" unless the widget made it persistent, and unchanged
\* for any other change and for a payload that is not an object.
C25_EventReconciles ==
    wsLast.cb = "event" =>
        Display(wsBox, wsObj, wsLast.inst)
            = Reconciled(wsLast.before, wsLast.marked, wsLast.inst, "event",
                         wsLast.payload)

\* C26: every callback body has run on the thread of the main loop, and no
\* two callbacks are under way at once.
C26_MutationsOnMainLoop ==
    /\ wsThreads \subseteq {MainThread}
    /\ Cardinality(wsRunning) <= 1
    /\ \A r \in wsRunning : r.thread = MainThread

\* Callbacks posted by a consumer thread and by an event thread have both run,
\* and the last one changed what its widget shows.
C26_Witness ==
    /\ wsLast.cb = "event"
    /\ wsInitSent[wsLast.inst]
    /\ wsOwn[wsLast.inst].has
    /\ Display(wsBox, wsObj, wsLast.inst) # wsLast.before
    /\ wsThreads = {MainThread}

\* C27: each widget shows exactly the names its own callbacks asked it to
\* show, whatever the other widget has added or removed.
C27_InstancesIndependent ==
    \A x \in Instances : Display(wsBox, wsObj, x) = wsAlone[x]

\* C30: no list of workspaces, the one of the class or a widget's own, holds
\* two entries of the same name.
C30_NamesUnique ==
    \A list \in {wsClass} \cup {wsOwn[x].list : x \in Instances} :
        \A i, j \in 1..Len(list) :
            i # j => wsObj[list[i]].name # wsObj[list[j]].name

\* An "init" event named a workspace the widget already showed, and its list
\* holds two entries.
C30_Witness ==
    /\ wsLast.cb = "event"
    /\ wsLast.payload.change = "init"
    /\ wsLast.payload.name \in wsLast.before
    /\ Len(wsOwn[wsLast.inst].list) >= 2

\* C31: the list of each widget holds the workspaces with integer names
\* first, in ascending order, then the others in the order they were made,
\* and the children of the widget's button box are the buttons of the list's
\* workspaces, in the order of the list.
C31_ListSortedBoxAligned ==
    \A x \in Instances :
        LET list == IF wsOwn[x].has THEN wsOwn[x].list ELSE wsClass
        IN  /\ \A i, j \in 1..Len(list) :
                  i < j =>
                     LET a == wsObj[list[i]].name
                         b == wsObj[list[j]].name
                     IN  /\ (name_is_number(a) /\ name_is_number(b))
                                => NameInt[a] <= NameInt[b]
                         /\ ~(~name_is_number(a) /\ name_is_number(b))
                         /\ (~name_is_number(a) /\ ~name_is_number(b))
                                => list[i] < list[j]
            /\ wsBox[x] = list

\* C32: once a widget has processed its GET_WORKSPACES response, every
\* workspace its configuration makes persistent for the bar's output is in
\* the widget's list, whatever events were and are processed.
C32_PersistentStays ==
    \A x \in Instances : \A name \in wsMarked[x] :
        name_in_list(wsObj, IF wsOwn[x].has THEN wsOwn[x].list ELSE wsClass,
                     name)

\* The second widget has processed its response, which made workspace "1"
\* persistent, and then an "empty" event for "1", which is still shown.
C32_Witness ==
    /\ wsLast.inst = "B"
    /\ wsLast.cb = "event"
    /\ wsLast.payload.change = "empty"
    /\ wsLast.payload.name \in wsLast.marked
    /\ wsLast.payload.name \in wsLast.before
    /\ wsLast.payload.name \in Display(wsBox, wsObj, "B")

\* The response and every event the compositor sent have been handled, the
\* subscription is taken, and nothing is under way.
Quiet ==
    /\ wsInitSent["A"]
    /\ sySubscribed
    /\ wsQueue = <<>>
    /\ wsRunning = {}

\* C33: when all is quiet, the workspaces the widget shows, its persistent
\* ones aside, are the workspaces the compositor has.
C33_SnapshotAndEventsAgree ==
    Quiet => Display(wsBox, wsObj, "A") \ wsMarked["A"] = syComp

(***************************************************************************)
(* The tray's watcher.                                                     *)
(***************************************************************************)
\* The values of the signals of one kind, in the order emitted.
Emitted(signal) ==
    LET sel == SelectSeq(trSignals, LAMBDA e : e.signal = signal)
    IN  [k \in 1..Len(sel) |-> sel[k].value]

\* The service of an item id: what stands before its first "/".
RECURSIVE ServiceOf(_)
ServiceOf(item) ==
    IF item = <<>> \/ Head(item) = Slash THEN <<>>
    ELSE <<Head(item)>> \o ServiceOf(Tail(item))

\* C34: the list of registered items holds the item ids announced with
\* status_notifier_item_registered, each once, and nothing else; and as long
\* as no name has lost its owner no item id is announced twice.
C34_ItemsAreAnnouncedIds ==
    LET announced == Emitted("status_notifier_item_registered")
    IN  /\ \A k \in 1..Len(trItems) : In(trItems[k], announced)
        /\ \A i, j \in 1..Len(trItems) : i # j => trItems[i] # trItems[j]
        /\ ~trLast.lost =>
              /\ \A i, j \in 1..Len(announced) :
                    i # j => announced[i] # announced[j]
              /\ \A k \in 1..Len(announced) : In(announced[k], trItems)

\* C35: every value of status_notifier_item_unregistered was announced
\* before with status_notifier_item_registered; and the last loss of a name's
\* owner took the items of that service off the list and left on it the
\* items of every other service.
C35_UnregistersItemsOfService ==
    /\ \A k \in 1..Len(trSignals) :
          trSignals[k].signal = "status_notifier_item_unregistered" =>
             \E j \in 1..(k - 1) :
                /\ trSignals[j].signal = "status_notifier_item_registered"
                /\ trSignals[j].value = trSignals[k].value
    /\ trLast.lost =>
          /\ \A k \in 1..Len(trLast.before) :
                ServiceOf(trLast.before[k]) # trLast.service
                   => In(trLast.before[k], trLast.after)
          /\ \A k \in 1..Len(trLast.after) :
                ServiceOf(trLast.after[k]) # trLast.service

====
